---- MODULE Spec2Model ----
(***************************************************************************)
(* A model of the llm_index analysis core: the clustering engine           *)
(* (clustering.py), the context-chunk optimizer (llm_optimization.py),     *)
(* the complexity score (technical_debt.py) and the dependency extraction  *)
(* (analysis.py).                                                          *)
(*                                                                         *)
(* Files are the integers 1..n in input order (the order of                *)
(* dep_graph.keys()).  A path or a dependency token is a sequence of       *)
(* characters, a character a small integer; c + 100 is the upper-case      *)
(* form of character c.                                                    *)
(***************************************************************************)
EXTENDS Integers, Sequences, FiniteSets, TLC

VARIABLES
    \* ---- EnhancedClusteringEngine.cluster_files ----
    pc,                 \* position inside cluster_files
    nfiles,             \* len(dep_graph)
    dep_graph,          \* file -> set of dependency tokens
    complexity_scores,  \* partial map file -> score (empty: None or {})
    max_cluster_size,
    min_cluster_size,
    G,                  \* the weighted graph: unordered pair of files -> weight > 0
    initial_clusters,   \* result of _spectral_clustering
    optimized,          \* the list _optimize_clusters builds
    oi,                 \* index of the next cluster of its loop
    raised,             \* an exception reached the except branch of cluster_files
    result,             \* the value cluster_files returns
    \* ---- LLMContextOptimizer.optimize_for_llm ----
    opc,                \* position inside optimize_for_llm
    clusters,           \* its argument: the list of clusters
    llm_model,          \* its argument: the name of the profile
    file_tokens,        \* file -> TokenEstimate
    context_chunks,     \* result of _create_context_chunks
    remaining_chunks,   \* _optimize_chunk_ordering: ids of remaining_chunks, in dict order
    processed_chunks,   \* _optimize_chunk_ordering: processed_chunks
    ordered_chunks,     \* _optimize_chunk_ordering: ordered_chunks
    loading_phases,     \* loading_strategy['loading_phases']
    \* ---- TechnicalDebtAnalyzer.analyze_file_complexity ----
    spc,                \* position: "start", "analyzed", "scored"
    metrics,            \* the ComplexityMetrics of the file
    file_score,         \* metrics.overall_score()
    \* ---- two runs of the analysis over the same project ----
    dpc,                \* run -> position
    run_dep_graph,      \* run -> file -> the list analyze_project stores
    run_dependencies,   \* run -> cluster -> the list _find_chunk_dependencies returns
    \* ---- TechnicalDebtAnalyzer.detect_debt_items ----
    tpc,                \* position: "start", "detected"
    cur_file,           \* the file detect_debt_items is given
    file_debt,          \* the list detect_debt_items returns
    \* ---- analysis.py: analyze_project, analyze_project_enhanced ----
    apc,                \* position: "walk", "returned", "raised"
    entry,              \* the function called
    stage,              \* analyze_project_enhanced: "try" or "except"
    project,            \* the files os.walk yields, in its order
    wi,                 \* number of files the walk has passed
    count,              \* count of analyze_project
    walk_dep_graph,     \* dep_graph of analyze_project: the files stored, in order
    \* ---- TechnicalDebtAnalyzer.analyze_project_debt, generate_action_plan ----
    bpc,                \* position: "loop", "done"; "plan", "planned"
    batch,              \* the files of dep_graph.keys(), in order
    bi,                 \* number of files the loop has passed
    file_complexities,  \* file path -> ComplexityMetrics
    debt_items,         \* the list of TechnicalDebtItem
    action_plan,        \* the dict generate_action_plan returns
    \* ---- EnhancedClusteringEngine._merge_small_clusters ----
    small_indices,      \* the indices of the small clusters still to visit
    \* ---- LLMContextOptimizer._generate_overflow_strategy ----
    vpc,                \* position: "call", "returned"
    overflow_chunks,    \* the argument chunks
    overflow_max_tokens, \* the argument max_tokens
    overflow_strategy,  \* the dict the call returns
    \* ---- analysis.py: analyze_project_enhanced ----
    stored_score,       \* complexity_scores[file_path] of the analysed file
    \* ---- utils.py: _TEMP_SESSIONS and the request handlers of src/api ----
    TEMP_SESSIONS,      \* _TEMP_SESSIONS: session id -> temp directory
    tempdirs,           \* the temp directories that exist on disk
    made,               \* how many directories mkdtemp has made
    requests,           \* request -> its handler, position, sid and tempdir
    \* ---- LLMContextOptimizer._categorize_python_content, _categorize_js_content ----
    kpc,                \* position: "loop", "returned"
    lang,               \* which classifier runs: "python" or "js"
    source_lines,       \* the argument lines
    li,                 \* number of lines the loop has passed
    in_docstring,       \* the locals of _categorize_python_content
    docstring_quotes,
    in_block_comment,   \* the locals of _categorize_js_content
    in_jsdoc,
    code_lines,         \* the three lists the classifiers return
    comment_lines,
    doc_lines,
    \* ---- llm_index/refactor.py and api/refactor.py: plans and moves ----
    fpc,                \* position: "call", "planned", "moved"
    refactor_clusters,  \* the argument clusters: lists of file paths
    refactor_scores,    \* the argument complexity_scores: path -> score
    refactor_debt,      \* the file_path of each item of debt_analysis['debt_items']
    refactor_plan,      \* the plan returned
    filesystem          \* the files on disk: path -> content

cvars == <<pc, nfiles, dep_graph, complexity_scores, max_cluster_size,
           min_cluster_size, G, initial_clusters, optimized, oi, raised, result>>

ovars == <<opc, clusters, llm_model, file_tokens, context_chunks,
           remaining_chunks, processed_chunks, ordered_chunks, loading_phases>>

svars == <<spc, metrics, file_score>>

dvars == <<dpc, run_dep_graph, run_dependencies>>

tvars == <<tpc, cur_file, file_debt>>

avars == <<apc, entry, stage, project, wi, count, walk_dep_graph>>

bvars == <<bpc, batch, bi, file_complexities, debt_items, action_plan>>

\* the groups of the further analyses
vvars == <<vpc, overflow_chunks, overflow_max_tokens, overflow_strategy>>

zvars == <<vvars, stored_score>>

wvars == <<TEMP_SESSIONS, tempdirs, made, requests>>

\* the groups of the request handlers, the classifiers and the refactor
kvars == <<kpc, lang, source_lines, li, in_docstring, docstring_quotes,
           in_block_comment, in_jsdoc, code_lines, comment_lines, doc_lines>>

rvars == <<fpc, refactor_clusters, refactor_scores, refactor_debt,
           refactor_plan, filesystem>>

yvars == <<wvars, kvars, rvars>>

xvars == <<tvars, avars, bvars, small_indices, zvars, yvars>>

vars == <<cvars, ovars, svars, dvars, xvars>>

----------------------------------------------------------------------------
(* Bounds of the model *)
MaxFiles == 10
MaxClusterSizeBound == 4
MinClusterSizeBound == 3
MaxChunkFiles == 4
MaxDetFiles == 3
MaxLocFactor == 2
MaxDebtLines == 1
MaxFuncs == 2
MaxBatchFiles == 2
MaxPlanItems == 6
MaxMergeFiles == 4
MaxOverflowChunks == 3
MaxChunkTokens == 3
MaxPriority == 2
MaxBudget == 2
\* constants.py: MAX_FILES_PER_PROJECT = 2000, scaled down
MAX_FILES_PER_PROJECT == 3
\* constants.py: MAX_TEMP_SESSIONS = 50 and the batch of 5 in unique_tempdir,
\* scaled down
MAX_TEMP_SESSIONS == 1
ExpireBatch == 1
MaxRequests == 3
MaxSourceLines == 3
MaxRefactorFiles == 4
MaxBaseNames == 2

----------------------------------------------------------------------------
(* The parts of the state a specification leaves idle: the clustering      *)
(* engine, the context optimizer, the complexity score, the two runs.      *)
OIdle ==
    /\ opc = "idle"
    /\ clusters = <<>>
    /\ llm_model = "generic"
    /\ file_tokens = <<>>
    /\ context_chunks = <<>>
    /\ remaining_chunks = <<>>
    /\ processed_chunks = {}
    /\ ordered_chunks = <<>>
    /\ loading_phases = <<>>

CIdle ==
    /\ pc = "idle"
    /\ max_cluster_size = 1
    /\ min_cluster_size = 1
    /\ G = [e \in {} |-> 0]
    /\ initial_clusters = <<>>
    /\ optimized = <<>>
    /\ oi = 0
    /\ raised = FALSE
    /\ result = <<>>

SIdle ==
    /\ spc = "idle"
    /\ metrics = <<>>
    /\ file_score = 0

DIdle ==
    /\ dpc = <<>>
    /\ run_dep_graph = <<>>
    /\ run_dependencies = <<>>

TIdle ==
    /\ tpc = "idle"
    /\ cur_file = <<>>
    /\ file_debt = <<>>

AIdle ==
    /\ apc = "idle"
    /\ entry = "none"
    /\ stage = "none"
    /\ project = <<>>
    /\ wi = 0
    /\ count = 0
    /\ walk_dep_graph = <<>>

BIdle ==
    /\ bpc = "idle"
    /\ batch = <<>>
    /\ bi = 0
    /\ file_complexities = <<>>
    /\ debt_items = <<>>
    /\ action_plan = <<>>

MIdle == small_indices = <<>>

VIdle ==
    /\ vpc = "idle"
    /\ overflow_chunks = <<>>
    /\ overflow_max_tokens = 1
    /\ overflow_strategy = <<>>

EIdle == stored_score = 0

WIdle ==
    /\ TEMP_SESSIONS = <<>>
    /\ tempdirs = {}
    /\ made = 0
    /\ requests = <<>>

KIdle ==
    /\ kpc = "idle"
    /\ lang = "none"
    /\ source_lines = <<>>
    /\ li = 0
    /\ in_docstring = FALSE
    /\ docstring_quotes = "none"
    /\ in_block_comment = FALSE
    /\ in_jsdoc = FALSE
    /\ code_lines = <<>>
    /\ comment_lines = <<>>
    /\ doc_lines = <<>>

RIdle ==
    /\ fpc = "idle"
    /\ refactor_clusters = <<>>
    /\ refactor_scores = <<>>
    /\ refactor_debt = <<>>
    /\ refactor_plan = <<>>
    /\ filesystem = <<>>

YIdle == WIdle /\ KIdle /\ RIdle

XIdle == TIdle /\ AIdle /\ BIdle /\ MIdle /\ VIdle /\ EIdle /\ YIdle


----------------------------------------------------------------------------
(* Sequences *)
Range(s) == {s[i] : i \in 1..Len(s)}

Min2(a, b) == IF a <= b THEN a ELSE b
Max2(a, b) == IF a >= b THEN a ELSE b

RECURSIVE Flatten(_)
Flatten(ss) == IF ss = <<>> THEN <<>> ELSE Head(ss) \o Flatten(Tail(ss))

\* math.ceil(a / b) for a >= 0, b > 0
\* math.ceil(a / b) for a >= 0 and b # 0
CeilDiv(a, b) == IF b > 0 THEN (a + b - 1) \div b ELSE 0 - (a \div (0 - b))

\* a // b for a >= 0 and b # 0
FloorDiv(a, b) == IF b > 0 THEN a \div b ELSE 0 - ((a - b - 1) \div (0 - b))

----------------------------------------------------------------------------
(* Paths and dependency tokens.  The characters:                           *)
(*   1 "dir/"  2 "."  3 "__"  8 ".md"  9 ".py"                             *)
(*   21 main  22 index  23 app  24 core  25 engine  26 manager             *)
(*   31 util  32 helper  33 lib  34 common  35 shared  36 config           *)
(*   41 readme  42 doc  43 guide  51 test  52 spec                         *)
(*   60 + f: the name only file f has;  99: a name no file has             *)
FileChar(f) == 60 + f
\* file 1 is dir/main<1>.py, file 2 dir/util<2>.py, file 3 dir/test<3>.py,
\* file 4 dir/readme<4>.md, any other file f dir/<f>.py
FileName(f) ==
    IF f = 1 THEN <<1, 21, FileChar(f), 9>>
    ELSE IF f = 2 THEN <<1, 31, FileChar(f), 9>>
    ELSE IF f = 3 THEN <<1, 51, FileChar(f), 9>>
    ELSE IF f = 4 THEN <<1, 41, FileChar(f), 8>>
    ELSE <<1, FileChar(f), 9>>

\* str.lower()
LowerChar(c) == IF c > 100 THEN c - 100 ELSE c
Lower(s) == [i \in 1..Len(s) |-> LowerChar(s[i])]

\* `a in b` for strings
Contains(a, b) ==
    \E i \in 1..(Len(b) - Len(a) + 1) : SubSeq(b, i, i + Len(a) - 1) = a

\* b.endswith(a)
EndsWith(b, a) ==
    /\ Len(a) <= Len(b)
    /\ SubSeq(b, Len(b) - Len(a) + 1, Len(b)) = a

TokFile1 == <<FileChar(1)>>              \* the module name of file 1
TokFile2Upper == <<FileChar(2) + 100>>   \* the module name of file 2, upper case
TokDir == <<1>>                          \* a package name: part of every path
TokExternal == <<99>>                    \* a library: part of no path
Tokens == {TokFile1, TokFile2Upper, TokDir, TokExternal}

----------------------------------------------------------------------------
(* clustering.py: EnhancedClusteringEngine *)

Files(n) == [i \in 1..n |-> i]

\* complexity_scores.get(f, 1.0)
ScoreOf(scores, f) == IF f \in DOMAIN scores THEN scores[f] ELSE 1

\* _find_target_files: the files, in order, that match a dependency string
TargetMatch(dep, name) ==
    \/ Contains(dep, name)
    \/ EndsWith(name, dep \o <<9>>)
    \/ Contains(Lower(dep), Lower(name))

find_target_files(dep, files) ==
    SelectSeq(files, LAMBDA f : TargetMatch(dep, FileName(f)))

\* _calculate_mutual_information.  mi = p_xy * log2(p_xy / (p_x * p_y)) with
\* p_xy = i/u, p_x = a/u, p_y = b/u, so mi > 0 exactly when i*u > a*b; the
\* function returns max(0, mi).  A positive value is represented by
\* i*u - a*b, which has its sign.
calculate_mutual_information(file1, file2, file_deps) ==
    LET deps1 == file_deps[file1]
        deps2 == file_deps[file2]
        intersection == Cardinality(deps1 \cap deps2)
        union == Cardinality(deps1 \cup deps2)
    IN  IF deps1 = {} /\ deps2 = {} THEN 0
        ELSE IF union = 0 THEN 0
        ELSE IF intersection > 0
                /\ Cardinality(deps1) > 0 /\ Cardinality(deps2) > 0
             THEN Max2(0, intersection * union
                          - Cardinality(deps1) * Cardinality(deps2))
             ELSE 0

\* the (src, target) pairs _build_enhanced_graph weighs
ResolvedPairs(deps, n) ==
    {<<src, tgt>> \in (1..n) \X (1..n) :
        /\ src # tgt
        /\ \E dep \in deps[src] : tgt \in Range(find_target_files(dep, Files(n)))}

\* math.log(complexity_factor) raises ValueError for a factor <= 0
LogRaises(scores, src, tgt) ==
    /\ DOMAIN scores # {}
    /\ ScoreOf(scores, src) + ScoreOf(scores, tgt) <= 0

\* weight of the pair: the mutual information, times 1 + log(factor) when
\* scores are given.  For the integer scores of the model the factor is at
\* least 1/2 and 1 + log(factor) > 0: the multiplication keeps the sign.
EdgeWeight(deps, scores, src, tgt) ==
    calculate_mutual_information(src, tgt, deps)

\* _build_enhanced_graph: the edges added (weight > 0), as a function from
\* the unordered pair to its weight
build_enhanced_graph(deps, scores, n) ==
    LET pairs == {p \in ResolvedPairs(deps, n) :
                      EdgeWeight(deps, scores, p[1], p[2]) > 0}
        edges == {{p[1], p[2]} : p \in pairs}
    IN  [e \in edges |->
            LET p == CHOOSE q \in pairs : {q[1], q[2]} = e
            IN  EdgeWeight(deps, scores, p[1], p[2])]

build_graph_raises(deps, scores, n) ==
    \E p \in ResolvedPairs(deps, n) : LogRaises(scores, p[1], p[2])

has_edge(g, a, b) == {a, b} \in DOMAIN g

\* G.subgraph(nodes): the edges with both ends among the nodes
Subgraph(g, nodes) ==
    [e \in {x \in DOMAIN g : x \subseteq Range(nodes)} |-> g[e]]

\* line 43: the single-cluster shortcut of cluster_files
single_cluster_shortcut_strict(n, maxsize) == n < maxsize

single_cluster_shortcut(n, maxsize) == n <= maxsize

\* lines 38-44: `if not dep_graph` or the shortcut
returns_early(n, maxsize) == n = 0 \/ single_cluster_shortcut(n, maxsize)

\* a chunking that takes one file too few into every chunk
RECURSIVE fallback_clustering_short(_, _)
fallback_clustering_short(files, chunk_size) ==
    IF files = <<>> THEN <<>>
    ELSE <<SubSeq(files, 1, Min2(chunk_size, Len(files)) - 1)>>
         \o fallback_clustering_short(
                SubSeq(files, Min2(chunk_size, Len(files)) + 1, Len(files)),
                chunk_size)

\* _fallback_clustering, and the fixed-size chunking of _split_large_cluster:
\* range(0, len(files), chunk_size) is empty for a negative chunk_size (and
\* raises ValueError for chunk_size 0, see chunking_raises)
RECURSIVE fallback_clustering(_, _)
fallback_clustering(files, chunk_size) ==
    IF files = <<>> \/ chunk_size < 0 THEN <<>>
    ELSE <<SubSeq(files, 1, Min2(chunk_size, Len(files)))>>
         \o fallback_clustering(
                SubSeq(files, Min2(chunk_size, Len(files)) + 1, Len(files)),
                chunk_size)

\* the grouping of lines 189-193: one list per label, in the order the labels
\* first appear, each list in node order
RECURSIVE GroupByLabels(_, _, _)
GroupByLabels(nodes, labels, i) ==
    IF i > Len(nodes) THEN <<>>
    ELSE LET first == \A j \in 1..(i - 1) : labels[j] # labels[i]
             members == {k \in 1..Len(nodes) : labels[k] = labels[i]}
             group == SelectSeq(nodes, LAMBDA x :
                         \E k \in members : nodes[k] = x)
         IN  (IF first THEN <<group>> ELSE <<>>)
             \o GroupByLabels(nodes, labels, i + 1)

\* a cluster count without the lower bound of two
n_clusters_no_floor(n, maxsize) == Min2(n \div maxsize, 8)

\* n_clusters = min(max(2, n // max_cluster_size), 8)
n_clusters(n, maxsize) == Min2(Max2(2, FloorDiv(n, maxsize)), 8)

\* n // 0 and math.ceil(n / 0) raise ZeroDivisionError, range(0, n, 0)
\* raises ValueError
chunking_raises(maxsize) == maxsize = 0

\* _spectral_clustering: the lists it can return.  With max_cluster_size 0
\* the division raises and _community_detection_fallback returns the
\* communities of the graph, without edges one per node.  Without edges the labels
\* are arange(n) % n_clusters; with edges SpectralClustering assigns any of
\* the n_clusters labels to each node, or fails and community detection
\* returns some partition of the nodes.
spectral_clustering(g, files, maxsize) ==
    IF Len(files) < 4 THEN {<<files>>}
    ELSE IF chunking_raises(maxsize) /\ DOMAIN g = {}
        THEN {[i \in 1..Len(files) |-> <<files[i]>>]}
    ELSE LET n == Len(files)
             k == n_clusters(n, maxsize)
         IN  IF DOMAIN g # {}
             THEN {GroupByLabels(files, l, 1) : l \in [1..n -> 0..(Max2(k, n) - 1)]}
             ELSE {GroupByLabels(files, [i \in 1..n |-> (i - 1) % k], 1)}

\* sum of the weights of the edges between two lists of nodes
RECURSIVE SumWeights(_, _)
SumWeights(g, pairs) ==
    IF pairs = {} THEN 0
    ELSE LET p == CHOOSE q \in pairs : TRUE
         IN  (IF has_edge(g, p[1], p[2]) THEN g[{p[1], p[2]}] ELSE 0)
             + SumWeights(g, pairs \ {p})

\* _calculate_inter_cluster_connectivity = total_weight / max_connections,
\* as the fraction <<total_weight, max_connections>> (0/1 when there is no
\* possible connection)
inter_cluster_connectivity(cluster1, cluster2, g) ==
    LET max_connections == Len(cluster1) * Len(cluster2)
    IN  IF max_connections > 0
        THEN <<SumWeights(g, Range(cluster1) \X Range(cluster2)), max_connections>>
        ELSE <<0, 1>>

\* a > b for fractions with positive denominators
FracGreater(a, b) == a[1] * b[2] > b[1] * a[2]

\* the loop of _handle_small_cluster: the index of the best cluster to merge
\* with (0: none), scanning from index i
RECURSIVE HandleScan(_, _, _, _, _, _, _)
HandleScan(small, existing, g, maxsize, i, best_idx, best_connectivity) ==
    IF i > Len(existing) THEN best_idx
    ELSE LET connectivity == inter_cluster_connectivity(small, existing[i], g)
         IN  IF /\ Len(existing[i]) + Len(small) <= maxsize
                /\ FracGreater(connectivity, best_connectivity)
             THEN HandleScan(small, existing, g, maxsize, i + 1, i, connectivity)
             ELSE HandleScan(small, existing, g, maxsize, i + 1,
                             best_idx, best_connectivity)

\* optimized.extend(self._handle_small_cluster(cluster, optimized, G)): the
\* list `optimized` afterwards
handle_small_cluster(small, existing, g, maxsize) ==
    IF existing = <<>> THEN <<small>>
    ELSE LET best == HandleScan(small, existing, g, maxsize, 1, 0, <<0, 1>>)
         IN  IF best > 0
             THEN [existing EXCEPT ![best] = @ \o small]
             ELSE Append(existing, small)

\* a splitting that trusts the labelling to have split enough
split_large_cluster_unchecked(large, g, maxsize) ==
    IF Len(large) <= maxsize THEN {<<large>>}
    ELSE spectral_clustering(Subgraph(g, large), large, maxsize)

\* _split_large_cluster: the lists of parts it can return
split_large_cluster(large, g, maxsize) ==
    IF Len(large) <= maxsize THEN {<<large>>}
    ELSE LET n_splits == CeilDiv(Len(large), maxsize)
         IN  {IF Len(sub) < n_splits
              THEN fallback_clustering(large, maxsize)
              ELSE sub :
                 sub \in spectral_clustering(Subgraph(g, large), large, maxsize)}

\* the loop of _find_best_merge_target: the index of the best target
\* (0: none); score = connectivity * size_bonus, size_bonus 1.0 or 0.5
RECURSIVE MergeScan(_, _, _, _, _, _, _, _, _)
MergeScan(small, all, exclude, g, maxsize, minsize, i, best_idx, best_score) ==
    IF i > Len(all) THEN best_idx
    ELSE IF i = exclude
         THEN MergeScan(small, all, exclude, g, maxsize, minsize, i + 1,
                        best_idx, best_score)
    ELSE LET connectivity == inter_cluster_connectivity(small, all[i], g)
             score == IF Len(all[i]) < minsize
                      THEN <<2 * connectivity[1], 2 * connectivity[2]>>
                      ELSE <<connectivity[1], 2 * connectivity[2]>>
         IN  IF /\ Len(all[i]) + Len(small) <= maxsize
                /\ FracGreater(score, best_score)
             THEN MergeScan(small, all, exclude, g, maxsize, minsize, i + 1,
                            i, score)
             ELSE MergeScan(small, all, exclude, g, maxsize, minsize, i + 1,
                            best_idx, best_score)

\* a search that starts from best_score = -1 and so accepts a score of 0
find_best_merge_target_any(small, all, exclude, g, maxsize, minsize) ==
    MergeScan(small, all, exclude, g, maxsize, minsize, 1, 0, <<-1, 1>>)

find_best_merge_target(small, all, exclude, g, maxsize, minsize) ==
    MergeScan(small, all, exclude, g, maxsize, minsize, 1, 0, <<0, 1>>)

\* list.pop(i)
Pop(s, i) == SubSeq(s, 1, i - 1) \o SubSeq(s, i + 1, Len(s))

\* the loop of _merge_small_clusters over reversed(small_clusters); idxs is
\* the ascending list of the indices still to visit
RECURSIVE MergeLoop(_, _, _, _, _)
MergeLoop(merged, idxs, g, maxsize, minsize) ==
    IF idxs = <<>> THEN merged
    ELSE LET i == idxs[Len(idxs)]
             small == merged[i]
             target == find_best_merge_target(small, merged, i, g,
                                              maxsize, minsize)
             next == IF target > 0
                     THEN Pop([merged EXCEPT ![target] = @ \o small], i)
                     ELSE merged
         IN  MergeLoop(next, SubSeq(idxs, 1, Len(idxs) - 1), g,
                       maxsize, minsize)

merge_small_clusters(cls, g, maxsize, minsize) ==
    LET small_clusters ==
            SelectSeq([i \in 1..Len(cls) |-> i],
                      LAMBDA i : Len(cls[i]) < minsize)
    IN  IF small_clusters = <<>> THEN cls
        ELSE MergeLoop(cls, small_clusters, g, maxsize, minsize)

\* one round of the loop of _optimize_clusters, for one cluster: the lists
\* `optimized` can be afterwards
optimize_one(cluster, opt, g, maxsize, minsize) ==
    IF Len(cluster) <= maxsize
    THEN IF Len(cluster) >= minsize
         THEN {Append(opt, cluster)}
         ELSE {handle_small_cluster(cluster, opt, g, maxsize)}
    ELSE {opt \o parts : parts \in split_large_cluster(cluster, g, maxsize)}

\* a cluster larger than max_cluster_size 0 is split, the split raises
\* ZeroDivisionError and its except branch raises ValueError
optimize_raises(cluster, maxsize) ==
    Len(cluster) > maxsize /\ chunking_raises(maxsize)

\* the end of _optimize_clusters: merge the small clusters, drop the empty
optimize_finish(opt, g, maxsize, minsize) ==
    SelectSeq(merge_small_clusters(opt, g, maxsize, minsize),
              LAMBDA c : c # <<>>)

----------------------------------------------------------------------------
(* cluster_files as a state machine *)

\* the dependency graphs the model draws from: files 1 and 2 import some of
\* the tokens, the other files all import the same (possibly empty) set
DepGraphs(n) ==
    {[f \in 1..n |-> IF f = 1 THEN d1 ELSE IF f = 2 THEN d2 ELSE rest] :
        d1 \in {{}, {TokFile2Upper}, {TokDir, TokExternal}, {TokFile1, TokDir}},
        d2 \in {{}, {TokFile1}, {TokDir, TokExternal}},
        rest \in {{}, {TokDir}}}

\* the complexity scores the model draws from: none, all positive, or with
\* zero scores
ScoreMaps(n) ==
    {[f \in {} |-> 0],
     [f \in 1..n |-> 50],
     [f \in 1..Min2(n, 2) |-> 0]}

CInit ==
    /\ pc = "start"
    /\ nfiles \in 0..MaxFiles
    /\ max_cluster_size \in 1..MaxClusterSizeBound
    /\ min_cluster_size \in 1..MinClusterSizeBound
    /\ min_cluster_size <= max_cluster_size
    /\ dep_graph \in DepGraphs(nfiles)
    /\ complexity_scores \in ScoreMaps(nfiles)
    /\ G = [e \in {} |-> 0]
    /\ initial_clusters = <<>>
    /\ optimized = <<>>
    /\ oi = 0
    /\ raised = FALSE
    /\ result = <<>>
    /\ OIdle
    /\ SIdle
    /\ DIdle
    /\ XIdle

\* lines 38-44: the empty graph and the single-cluster shortcut
Shortcut ==
    /\ pc = "start"
    /\ returns_early(nfiles, max_cluster_size)
    /\ result' = IF nfiles = 0 THEN <<>> ELSE <<Files(nfiles)>>
    /\ pc' = "done"
    /\ UNCHANGED <<nfiles, dep_graph, complexity_scores, max_cluster_size,
                   min_cluster_size, G, initial_clusters, optimized, oi, raised>>
    /\ UNCHANGED <<ovars, svars, dvars, xvars>>

\* line 47: _build_enhanced_graph returns
BuildGraph ==
    /\ pc = "start"
    /\ ~returns_early(nfiles, max_cluster_size)
    /\ ~build_graph_raises(dep_graph, complexity_scores, nfiles)
    /\ G' = build_enhanced_graph(dep_graph, complexity_scores, nfiles)
    /\ pc' = "spectral"
    /\ UNCHANGED <<nfiles, dep_graph, complexity_scores, max_cluster_size,
                   min_cluster_size, initial_clusters, optimized, oi, raised,
                   result>>
    /\ UNCHANGED <<ovars, svars, dvars, xvars>>

\* an except branch that returns all the files as one cluster
BuildGraphRaises_SingleCluster ==
    /\ pc = "start"
    /\ ~returns_early(nfiles, max_cluster_size)
    /\ build_graph_raises(dep_graph, complexity_scores, nfiles)
    /\ raised' = TRUE
    /\ result' = <<Files(nfiles)>>
    /\ pc' = "done"
    /\ UNCHANGED <<nfiles, dep_graph, complexity_scores, max_cluster_size,
                   min_cluster_size, G, initial_clusters, optimized, oi>>
    /\ UNCHANGED <<ovars, svars, dvars, xvars>>

\* lines 47, 62-65: _build_enhanced_graph raises, the except branch returns
\* the fallback clustering
BuildGraphRaises ==
    /\ pc = "start"
    /\ ~returns_early(nfiles, max_cluster_size)
    /\ build_graph_raises(dep_graph, complexity_scores, nfiles)
    /\ ~chunking_raises(max_cluster_size)
    /\ raised' = TRUE
    /\ result' = fallback_clustering(Files(nfiles), max_cluster_size)
    /\ pc' = "done"
    /\ UNCHANGED <<nfiles, dep_graph, complexity_scores, max_cluster_size,
                   min_cluster_size, G, initial_clusters, optimized, oi>>
    /\ UNCHANGED <<ovars, svars, dvars, xvars>>

\* line 50: _spectral_clustering
Spectral ==
    /\ pc = "spectral"
    /\ initial_clusters' \in
           spectral_clustering(G, Files(nfiles), max_cluster_size)
    /\ optimized' = <<>>
    /\ oi' = 1
    /\ pc' = "optimize"
    /\ UNCHANGED <<nfiles, dep_graph, complexity_scores, max_cluster_size,
                   min_cluster_size, G, raised, result>>
    /\ UNCHANGED <<ovars, svars, dvars, xvars>>

\* lines 218-228: one round of the loop of _optimize_clusters
OptimizeStep ==
    /\ pc = "optimize"
    /\ oi <= Len(initial_clusters)
    /\ ~optimize_raises(initial_clusters[oi], max_cluster_size)
    /\ optimized' \in optimize_one(initial_clusters[oi], optimized, G,
                                   max_cluster_size, min_cluster_size)
    /\ oi' = oi + 1
    /\ UNCHANGED <<pc, nfiles, dep_graph, complexity_scores, max_cluster_size,
                   min_cluster_size, G, initial_clusters, raised, result>>
    /\ UNCHANGED <<ovars, svars, dvars, xvars>>

\* lines 231-233 and 56-60: the small clusters are merged, the empty ones
\* dropped, the quality metrics computed and the clusters returned
OptimizeReturn ==
    /\ pc = "optimize"
    /\ oi > Len(initial_clusters)
    /\ result' = optimize_finish(optimized, G, max_cluster_size,
                                 min_cluster_size)
    /\ pc' = "done"
    /\ UNCHANGED <<nfiles, dep_graph, complexity_scores, max_cluster_size,
                   min_cluster_size, G, initial_clusters, optimized, oi, raised>>
    /\ UNCHANGED <<ovars, svars, dvars, xvars>>

CNext ==
    \/ Shortcut
    \/ BuildGraph
    \/ BuildGraphRaises
    \/ Spectral
    \/ OptimizeStep
    \/ OptimizeReturn

\* lines 47, 62-65 with max_cluster_size 0: _build_enhanced_graph raises
\* and the fallback clustering of the except branch raises ValueError, which
\* leaves cluster_files
BuildGraphFallbackRaises ==
    /\ pc = "start"
    /\ ~returns_early(nfiles, max_cluster_size)
    /\ build_graph_raises(dep_graph, complexity_scores, nfiles)
    /\ chunking_raises(max_cluster_size)
    /\ raised' = TRUE
    /\ pc' = "error"
    /\ UNCHANGED <<nfiles, dep_graph, complexity_scores, max_cluster_size,
                   min_cluster_size, G, initial_clusters, optimized, oi, result>>
    /\ UNCHANGED <<ovars, svars, dvars, xvars>>

\* lines 53, 62-65 with max_cluster_size 0: _optimize_clusters raises, and
\* the fallback clustering of the except branch raises ValueError, which
\* leaves cluster_files
OptimizeRaises ==
    /\ pc = "optimize"
    /\ oi <= Len(initial_clusters)
    /\ optimize_raises(initial_clusters[oi], max_cluster_size)
    /\ raised' = TRUE
    /\ pc' = "error"
    /\ UNCHANGED <<nfiles, dep_graph, complexity_scores, max_cluster_size,
                   min_cluster_size, G, initial_clusters, optimized, oi, result>>
    /\ UNCHANGED <<ovars, svars, dvars, xvars>>

\* a size configuration the constructor should not accept
malformed(maxsize, minsize) == minsize > maxsize \/ maxsize <= 0

\* cluster_files of an engine constructed with a malformed configuration
ConfigInit ==
    /\ pc = "start"
    /\ nfiles \in 0..MaxFiles
    /\ max_cluster_size \in -1..MaxClusterSizeBound
    /\ min_cluster_size \in 1..MinClusterSizeBound
    /\ malformed(max_cluster_size, min_cluster_size)
    /\ dep_graph \in DepGraphs(nfiles)
    /\ complexity_scores \in ScoreMaps(nfiles)
    /\ G = [e \in {} |-> 0]
    /\ initial_clusters = <<>>
    /\ optimized = <<>>
    /\ oi = 0
    /\ raised = FALSE
    /\ result = <<>>
    /\ OIdle
    /\ SIdle
    /\ DIdle
    /\ XIdle

ConfigNext ==
    \/ Shortcut
    \/ BuildGraph
    \/ BuildGraphRaises
    \/ BuildGraphFallbackRaises
    \/ Spectral
    \/ OptimizeStep
    \/ OptimizeRaises
    \/ OptimizeReturn

----------------------------------------------------------------------------
(* llm_optimization.py: LLMContextOptimizer *)

\* TokenEstimate with its __post_init__: a zero total is replaced by the sum
TokenEstimate(code, comments, documentation, total) ==
    [code_tokens |-> code,
     comments_tokens |-> comments,
     documentation_tokens |-> documentation,
     total_tokens |-> IF total = 0 THEN code + comments + documentation
                      ELSE total]

\* the estimate a file gets when its estimation fails
DefaultEstimate == TokenEstimate(500, 100, 50, 650)

\* _estimate_file_tokens: the three token counts of the categorized lines
\* and their sum, or the default when reading or categorizing fails
estimate_file_tokens(code, comments, documentation, fails) ==
    IF fails THEN DefaultEstimate
    ELSE TokenEstimate(code, comments, documentation,
                       code + comments + documentation)

\* file_tokens.get(f, TokenEstimate(0,0,0,0))
FileTokens(file_toks, f) ==
    IF f \in DOMAIN file_toks THEN file_toks[f] ELSE TokenEstimate(0, 0, 0, 0)

RECURSIVE SumSeq(_)
SumSeq(s) == IF s = <<>> THEN 0 ELSE Head(s) + SumSeq(Tail(s))

\* sum(file_tokens.get(f, ...).total_tokens for f in files)
TotalTokens(files, file_toks) ==
    SumSeq([i \in 1..Len(files) |-> FileTokens(file_toks, files[i]).total_tokens])

\* the llm_profiles
Profile(model) ==
    IF model = "claude"
    THEN [max_tokens |-> 200000, optimal_chunk_size |-> 8000,
          attention_decay |-> 95]
    ELSE IF model = "gpt4"
    THEN [max_tokens |-> 128000, optimal_chunk_size |-> 6000,
          attention_decay |-> 90]
    ELSE [max_tokens |-> 32000, optimal_chunk_size |-> 4000,
          attention_decay |-> 85]

\* keyword lists of _calculate_chunk_priority
BonusCore == {<<21>>, <<22>>, <<23>>, <<24>>}
BonusSupport == {<<31>>, <<32>>, <<36>>}

HasKeyword(kws, name) == \E kw \in kws : Contains(kw, Lower(name))

TypeBonus(f) ==
    IF HasKeyword(BonusCore, FileName(f)) THEN 5
    ELSE IF HasKeyword(BonusSupport, FileName(f)) THEN 2
    ELSE 0

\* _calculate_chunk_priority, as the exact fraction <<numerator, denominator>>
\* of avg_complexity + total_deps * 0.1 + type_bonus
calculate_chunk_priority(files, deps, scores) ==
    LET len == Len(files)
        den == Max2(len, 1)
        sum == SumSeq([i \in 1..len |-> ScoreOf(scores, files[i])])
        avg_num == IF DOMAIN scores = {} THEN 0
                   ELSE IF len = 0 THEN 1
                   ELSE sum
        outgoing == SumSeq([i \in 1..len |-> Cardinality(deps[files[i]])])
        incoming == Cardinality(UNION
            {{<<o, d>> : d \in {t \in deps[o] :
                  \E f \in Range(files) : Contains(t, FileName(f))}} :
             o \in (DOMAIN deps) \ Range(files)})
        bonus == SumSeq([i \in 1..len |-> TypeBonus(files[i])])
    IN  <<10 * avg_num + (outgoing + incoming) * den + 10 * bonus * den,
          10 * den>>

\* file_indicators of _determine_context_type, in the order of the dict
ContextTypes == <<"core", "supporting", "documentation", "tests">>

Indicators(context_type) ==
    IF context_type = "core"
    THEN {<<21>>, <<22>>, <<23>>, <<24>>, <<25>>, <<26>>}
    ELSE IF context_type = "supporting"
    THEN {<<31>>, <<32>>, <<33>>, <<34>>, <<35>>}
    ELSE IF context_type = "documentation"
    THEN {<<41>>, <<42>>, <<43>>, <<8>>}
    ELSE {<<51>>, <<52>>, <<3, 51, 3>>, <<2, 51, 2>>, <<2, 52, 2>>}

\* the (file, indicator) pairs that add one to type_scores[context_type]
TypeHits(files, t) ==
    {<<i, ind>> \in (1..Len(files)) \X Indicators(ContextTypes[t]) :
        Contains(ind, Lower(FileName(files[i])))}

\* the position of type t in type_scores: the types are inserted in the
\* order they are first incremented
FirstHit(files, t) ==
    LET first == CHOOSE i \in {h[1] : h \in TypeHits(files, t)} :
                     \A h \in TypeHits(files, t) : i <= h[1]
    IN  4 * first + t

\* _determine_context_type: max() returns the first type of type_scores
\* that has the maximal score
determine_context_type(files) ==
    LET hit == {t \in 1..4 : TypeHits(files, t) # {}}
        hits(t) == Cardinality(TypeHits(files, t))
        best == CHOOSE t \in hit :
                    \A u \in hit :
                        \/ hits(u) < hits(t)
                        \/ /\ hits(u) = hits(t)
                           /\ FirstHit(files, t) <= FirstHit(files, u)
    IN  IF hit = {} THEN "core" ELSE ContextTypes[best]

\* _find_chunk_dependencies: the files outside the chunk whose path contains
\* a dependency token of a file of the chunk.  The code returns list() of
\* this set; nothing the optimizer computes from it depends on its order.
find_chunk_dependencies(files, deps) ==
    {o \in (DOMAIN deps) \ Range(files) :
        \E f \in Range(files) \cap DOMAIN deps :
            \E d \in deps[f] : Contains(d, FileName(o))}

\* a chunk that leaves the documentation tokens out of its total
create_single_chunk_nodoc(chunk_id, files, deps, file_toks, scores) ==
    LET code == SumSeq([i \in 1..Len(files) |->
                           FileTokens(file_toks, files[i]).code_tokens])
        comments == SumSeq([i \in 1..Len(files) |->
                           FileTokens(file_toks, files[i]).comments_tokens])
        doc == SumSeq([i \in 1..Len(files) |->
                           FileTokens(file_toks, files[i]).documentation_tokens])
    IN  [chunk_id |-> chunk_id,
         files |-> files,
         token_estimate |-> TokenEstimate(code, comments, doc, code + comments),
         priority_score |-> calculate_chunk_priority(files, deps, scores),
         dependencies |-> find_chunk_dependencies(files, deps),
         context_type |-> determine_context_type(files)]

\* _create_single_chunk
create_single_chunk(chunk_id, files, deps, file_toks, scores) ==
    LET code == SumSeq([i \in 1..Len(files) |->
                           FileTokens(file_toks, files[i]).code_tokens])
        comments == SumSeq([i \in 1..Len(files) |->
                           FileTokens(file_toks, files[i]).comments_tokens])
        doc == SumSeq([i \in 1..Len(files) |->
                           FileTokens(file_toks, files[i]).documentation_tokens])
    IN  [chunk_id |-> chunk_id,
         files |-> files,
         token_estimate |-> TokenEstimate(code, comments, doc,
                                          code + comments + doc),
         priority_score |-> calculate_chunk_priority(files, deps, scores),
         dependencies |-> find_chunk_dependencies(files, deps),
         context_type |-> determine_context_type(files)]

\* the sort key of _split_cluster_into_chunks, times ten:
\* complexity + dep_count * 0.1
FilePriority(f, deps, scores) ==
    10 * (IF DOMAIN scores = {} THEN 1 ELSE ScoreOf(scores, f))
    + (IF f \in DOMAIN deps THEN Cardinality(deps[f]) ELSE 0)

\* file_priorities.sort(key=..., reverse=True): stable, descending
RECURSIVE SortByPriority(_, _, _)
SortByPriority(files, deps, scores) ==
    IF files = <<>> THEN <<>>
    ELSE LET x == files[Len(files)]
             t == SortByPriority(SubSeq(files, 1, Len(files) - 1), deps, scores)
             k == Cardinality({i \in 1..Len(t) :
                     FilePriority(t[i], deps, scores)
                         >= FilePriority(x, deps, scores)})
         IN  SubSeq(t, 1, k) \o <<x>> \o SubSeq(t, k + 1, Len(t))

\* the packing loop of _split_cluster_into_chunks from file i of the sorted
\* list on, and the final chunk
RECURSIVE SplitScan(_, _, _, _, _, _, _, _, _, _)
SplitScan(sorted, deps, file_toks, scores, target_size, cluster_id, i, chunks, current_chunk_files, current_chunk_tokens) ==
    LET part == create_single_chunk(<<cluster_id, Len(chunks)>>,
                    current_chunk_files, deps, file_toks, scores)
        closed == IF current_chunk_files # <<>> THEN Append(chunks, part)
                  ELSE chunks
    IN  IF i > Len(sorted) THEN closed
        ELSE LET file_token_count ==
                     FileTokens(file_toks, sorted[i]).total_tokens
             IN  IF current_chunk_tokens + file_token_count <= target_size
                 THEN SplitScan(sorted, deps, file_toks, scores, target_size,
                          cluster_id, i + 1, chunks,
                          Append(current_chunk_files, sorted[i]),
                          current_chunk_tokens + file_token_count)
                 ELSE SplitScan(sorted, deps, file_toks, scores, target_size,
                          cluster_id, i + 1, closed,
                          <<sorted[i]>>, file_token_count)

\* a split that returns only its first chunk
split_cluster_first_chunk(cluster, deps, file_toks, scores, target_size, cluster_id) ==
    SubSeq(SplitScan(SortByPriority(cluster, deps, scores), deps, file_toks,
                     scores, target_size, cluster_id, 1, <<>>, <<>>, 0), 1, 1)

\* _split_cluster_into_chunks (lines 912-938, continued at lines 152-170)
split_cluster_into_chunks(cluster, deps, file_toks, scores, target_size, cluster_id) ==
    SplitScan(SortByPriority(cluster, deps, scores), deps, file_toks, scores,
              target_size, cluster_id, 1, <<>>, <<>>, 0)

\* _create_context_chunks: cluster i (counted from 0) becomes the chunk <<i>>
\* ("cluster_i") or the chunks <<i, k>> ("cluster_i_part_k")
create_context_chunks(cls, deps, file_toks, scores, prof) ==
    Flatten([c \in 1..Len(cls) |->
        IF TotalTokens(cls[c], file_toks) <= prof.optimal_chunk_size
        THEN <<create_single_chunk(<<c - 1>>, cls[c], deps, file_toks, scores)>>
        ELSE split_cluster_into_chunks(cls[c], deps, file_toks, scores,
                 prof.optimal_chunk_size, c - 1)])

ChunkIds(chunks) == [i \in 1..Len(chunks) |-> chunks[i].chunk_id]

\* remaining_chunks[chunk_id]
ChunkById(chunks, id) ==
    chunks[CHOOSE i \in 1..Len(chunks) : chunks[i].chunk_id = id]

\* lines 297-305: chunk_deps, the chunk-dependency graph.  A dependency file
\* contributes the first other chunk that contains it.
chunk_deps(chunks) ==
    [id \in Range(ChunkIds(chunks)) |->
        {chunks[j].chunk_id : j \in
            {j \in 1..Len(chunks) :
                \E dep_file \in ChunkById(chunks, id).dependencies :
                    /\ dep_file \in Range(chunks[j].files)
                    /\ chunks[j].chunk_id # id
                    /\ \A k \in 1..(j - 1) :
                          ~(/\ dep_file \in Range(chunks[k].files)
                            /\ chunks[k].chunk_id # id)}}]

\* _get_context_type_priority
get_context_type_priority(context_type) ==
    IF context_type = "core" THEN 0
    ELSE IF context_type = "supporting" THEN 1
    ELSE IF context_type = "documentation" THEN 2
    ELSE IF context_type = "tests" THEN 3
    ELSE 2

\* candidates that ignore the dependencies
ready_chunks_all(rem, cdeps, done) == rem

\* lines 314-320: the remaining chunks with no unprocessed dependencies
ready_chunks(rem, cdeps, done) ==
    SelectSeq(rem, LAMBDA id : cdeps[id] \subseteq done)

\* line 324: max(remaining_chunks.values(), key=priority_score), the first
\* chunk with the maximal score
highest_priority(rem, chunks) ==
    rem[CHOOSE i \in 1..Len(rem) :
        /\ \A j \in 1..Len(rem) :
              ~FracGreater(ChunkById(chunks, rem[j]).priority_score,
                           ChunkById(chunks, rem[i]).priority_score)
        /\ \A j \in 1..(i - 1) :
              FracGreater(ChunkById(chunks, rem[i]).priority_score,
                          ChunkById(chunks, rem[j]).priority_score)]

\* the sort key (context type priority, -priority_score) of x is below that of y
KeyLess(x, y) ==
    \/ get_context_type_priority(x.context_type)
           < get_context_type_priority(y.context_type)
    \/ /\ get_context_type_priority(x.context_type)
           = get_context_type_priority(y.context_type)
       /\ FracGreater(x.priority_score, y.priority_score)

\* lines 327-332: candidates[0] after the stable sort
select_chunk(cands, chunks) ==
    cands[CHOOSE i \in 1..Len(cands) :
        /\ \A j \in 1..Len(cands) :
              ~KeyLess(ChunkById(chunks, cands[j]), ChunkById(chunks, cands[i]))
        /\ \A j \in 1..(i - 1) :
              KeyLess(ChunkById(chunks, cands[i]), ChunkById(chunks, cands[j]))]

\* a selection that always takes the first chunk of the input
next_chunk_first_input(rem, chunks, done) == chunks[1].chunk_id

\* lines 312-333: the chunk one iteration of the ordering loop selects
next_chunk(rem, chunks, done) ==
    LET ready == ready_chunks(rem, chunk_deps(chunks), done)
        candidates == IF ready = <<>> THEN <<highest_priority(rem, chunks)>>
                      ELSE ready
    IN  select_chunk(candidates, chunks)

RECURSIVE Pow(_, _)
Pow(b, e) == IF e = 0 THEN 1 ELSE b * Pow(b, e - 1)

\* one entry of loading_phases; attention_weight = attention_decay **
\* (phase_number - 1) as the fraction <<decay% ^ k, 100 ^ k>>.  The entry's
\* loading_priority, an average no other value depends on, is left out.
LoadingPhase(phase_number, chunk_ids, tokens, prof) ==
    [phase |-> phase_number,
     chunks |-> chunk_ids,
     total_tokens |-> tokens,
     attention_weight |-> <<Pow(prof.attention_decay, phase_number - 1),
                            Pow(100, phase_number - 1)>>]

\* lines 515-546: the phase loop from chunk i on, and the final phase
RECURSIVE PhaseScan(_, _, _, _, _, _, _)
PhaseScan(chunks, prof, i, phases, current_phase_chunks, current_phase_tokens, phase_number) ==
    LET closed == IF current_phase_chunks # <<>>
                  THEN Append(phases, LoadingPhase(phase_number,
                           current_phase_chunks, current_phase_tokens, prof))
                  ELSE phases
        next_number == IF current_phase_chunks # <<>> THEN phase_number + 1
                       ELSE phase_number
    IN  IF i > Len(chunks) THEN closed
        ELSE LET chunk_tokens == chunks[i].token_estimate.total_tokens
             IN  IF current_phase_tokens + chunk_tokens
                        <= prof.max_tokens \div 3
                 THEN PhaseScan(chunks, prof, i + 1, phases,
                          Append(current_phase_chunks, chunks[i].chunk_id),
                          current_phase_tokens + chunk_tokens, phase_number)
                 ELSE PhaseScan(chunks, prof, i + 1, closed,
                          <<chunks[i].chunk_id>>, chunk_tokens, next_number)

\* _generate_attention_optimization, line 626: max(phase_sizes) /
\* min(phase_sizes) divides by zero when one of several phases has no tokens
attention_optimization_raises(phases) ==
    /\ Len(phases) > 1
    /\ \E k \in 1..Len(phases) : phases[k].total_tokens = 0

\* phases numbered from 2
loading_strategy_from_two(chunks, prof) ==
    PhaseScan(chunks, prof, 1, <<>>, <<>>, 0, 2)

\* _create_progressive_loading_strategy: its loading_phases
create_progressive_loading_strategy(chunks, prof) ==
    PhaseScan(chunks, prof, 1, <<>>, <<>>, 0, 1)

----------------------------------------------------------------------------
(* optimize_for_llm as a state machine *)

Block(a, b) == [i \in 1..(b - a + 1) |-> a + i - 1]

\* the lists of clusters the model draws from: every way to cut the files
\* 1..n, in order, into consecutive clusters, and the split into the odd and
\* the even files
RECURSIVE Compositions(_)
Compositions(n) ==
    IF n = 0 THEN {<<>>}
    ELSE UNION {{Append(c, Block(k + 1, n)) : c \in Compositions(k)} :
                k \in 0..(n - 1)}

ClusterLists(n) ==
    Compositions(n) \cup
    (IF n >= 3
     THEN {<<SelectSeq(Files(n), LAMBDA f : f % 2 = 1),
             SelectSeq(Files(n), LAMBDA f : f % 2 = 0)>>}
     ELSE {})

\* the module name of file f
TokOf(f) == <<FileChar(f)>>

\* the dependency graphs the model draws from: no imports, a chain, a cycle,
\* a star around file 1 with a library import, one file importing the package
ChunkDepGraphs(n) ==
    {[f \in 1..n |-> {}],
     [f \in 1..n |-> IF f < n THEN {TokOf(f + 1)} ELSE {}],
     [f \in 1..n |-> {TokOf((f % n) + 1)}],
     [f \in 1..n |-> IF f = 1 THEN {TokExternal} ELSE {TokOf(1), TokExternal}],
     [f \in 1..n |-> IF f = 2 THEN {TokDir} ELSE {}]}

ChunkScoreMaps(n) ==
    {[f \in {} |-> 0],
     [f \in 1..n |-> 50],
     [f \in 1..n |-> 10 * f]}

\* the results of _estimate_all_file_tokens the model draws from: every
\* estimation fails; small files; medium files and failures alternating;
\* one file above a third of the generic context window among empty files;
\* one file above a third of the largest context window
FileTokenMaps(n) ==
    {[f \in 1..n |-> estimate_file_tokens(0, 0, 0, TRUE)],
     [f \in 1..n |-> estimate_file_tokens(300, 40, 10, FALSE)],
     [f \in 1..n |-> estimate_file_tokens(3000, 600, 100, f % 2 = 0)],
     [f \in 1..n |-> IF f = 1 THEN estimate_file_tokens(11000, 0, 0, FALSE)
                     ELSE estimate_file_tokens(0, 0, 0, FALSE)],
     [f \in 1..n |-> IF f = 2 THEN estimate_file_tokens(70000, 500, 0, FALSE)
                     ELSE estimate_file_tokens(3000, 600, 100, FALSE)]}

OInit ==
    /\ CIdle
    /\ SIdle
    /\ DIdle
    /\ XIdle
    /\ nfiles \in 0..MaxChunkFiles
    /\ dep_graph \in ChunkDepGraphs(nfiles)
    /\ complexity_scores \in ChunkScoreMaps(nfiles)
    /\ opc = "start"
    /\ clusters \in ClusterLists(nfiles)
    /\ llm_model \in {"claude", "gpt4", "generic"}
    /\ file_tokens = <<>>
    /\ context_chunks = <<>>
    /\ remaining_chunks = <<>>
    /\ processed_chunks = {}
    /\ ordered_chunks = <<>>
    /\ loading_phases = <<>>

\* line 80: _estimate_all_file_tokens(list(dep_graph.keys()))
EstimateTokens ==
    /\ opc = "start"
    /\ file_tokens' \in FileTokenMaps(nfiles)
    /\ opc' = "chunks"
    /\ UNCHANGED <<clusters, llm_model, context_chunks, remaining_chunks,
                   processed_chunks, ordered_chunks, loading_phases>>
    /\ UNCHANGED <<cvars, svars, dvars, xvars>>

\* lines 83-84: _create_context_chunks
CreateChunks ==
    /\ opc = "chunks"
    /\ context_chunks' = create_context_chunks(clusters, dep_graph,
           file_tokens, complexity_scores, Profile(llm_model))
    /\ opc' = "order"
    /\ UNCHANGED <<clusters, llm_model, file_tokens, remaining_chunks,
                   processed_chunks, ordered_chunks, loading_phases>>
    /\ UNCHANGED <<cvars, svars, dvars, xvars>>

\* lines 296-310: _optimize_chunk_ordering builds chunk_deps and fills
\* remaining_chunks in the order of the chunks
OrderStart ==
    /\ opc = "order"
    /\ remaining_chunks' = ChunkIds(context_chunks)
    /\ processed_chunks' = {}
    /\ ordered_chunks' = <<>>
    /\ opc' = "ordering"
    /\ UNCHANGED <<clusters, llm_model, file_tokens, context_chunks,
                   loading_phases>>
    /\ UNCHANGED <<cvars, svars, dvars, xvars>>

\* lines 312-335: one iteration of `while remaining_chunks`
OrderStep ==
    /\ opc = "ordering"
    /\ remaining_chunks # <<>>
    /\ LET selected == next_chunk(remaining_chunks, context_chunks,
                                  processed_chunks)
       IN  /\ ordered_chunks' =
                  Append(ordered_chunks, ChunkById(context_chunks, selected))
           /\ processed_chunks' = processed_chunks \cup {selected}
           /\ remaining_chunks' =
                  SelectSeq(remaining_chunks, LAMBDA id : id # selected)
    /\ UNCHANGED <<opc, clusters, llm_model, file_tokens, context_chunks,
                   loading_phases>>
    /\ UNCHANGED <<cvars, svars, dvars, xvars>>

\* line 337 and lines 94-95: the order is returned and
\* _create_progressive_loading_strategy groups it into phases
LoadingStrategy ==
    /\ opc = "ordering"
    /\ remaining_chunks = <<>>
    /\ LET phases == create_progressive_loading_strategy(ordered_chunks,
                         Profile(llm_model))
       IN  /\ ~attention_optimization_raises(phases)
           /\ loading_phases' = phases
    /\ opc' = "done"
    /\ UNCHANGED <<clusters, llm_model, file_tokens, context_chunks,
                   remaining_chunks, processed_chunks, ordered_chunks>>
    /\ UNCHANGED <<cvars, svars, dvars, xvars>>

\* lines 94-95 and 108-110: _create_progressive_loading_strategy raises
\* while it builds attention_optimization, and optimize_for_llm returns
\* {'error': ...} without a loading strategy
LoadingStrategyRaises ==
    /\ opc = "ordering"
    /\ remaining_chunks = <<>>
    /\ attention_optimization_raises(
           create_progressive_loading_strategy(ordered_chunks,
               Profile(llm_model)))
    /\ opc' = "error"
    /\ UNCHANGED <<clusters, llm_model, file_tokens, context_chunks,
                   remaining_chunks, processed_chunks, ordered_chunks,
                   loading_phases>>
    /\ UNCHANGED <<cvars, svars, dvars, xvars>>

ONext ==
    \/ EstimateTokens
    \/ CreateChunks
    \/ OrderStart
    \/ OrderStep
    \/ LoadingStrategy
    \/ LoadingStrategyRaises

----------------------------------------------------------------------------
(* technical_debt.py: ComplexityMetrics and the analysis strategies.       *)
(* The float metrics are held in units of 1/80, so that loc / 10, loc / 8,  *)
(* loc / 5, cyclomatic * 1.2 and nesting * 0.5 are integers; the score is  *)
(* held in units of 1/8000 (the weights are hundredths).                   *)

ComplexityMetrics(cyclomatic, cognitive, nesting, loc, duplication, mi) ==
    [cyclomatic_complexity |-> cyclomatic,
     cognitive_complexity |-> cognitive,
     nesting_depth |-> nesting,
     lines_of_code |-> loc,
     code_duplication_ratio |-> duplication,
     maintainability_index |-> mi]

\* max(0, 171 - 5.2 * log(volume) - 0.23 * cyclomatic_avg - 16.2 *
\* log(max(1, loc))): the volume is at least 1, so what is subtracted from
\* 171 is a penalty >= 0
maintainability_index(penalty) == Max2(0, 171 * 80 - penalty)

\* the metrics PythonComplexityVisitor and _analyze_python_complexity give:
\* the visitor starts at cyclomatic 1, cognitive 0, depth 0 and only adds
analyze_python_complexity(branches, cognitive, nesting, loc, penalty) ==
    ComplexityMetrics(80 * (1 + branches), 80 * cognitive, nesting, loc, 0,
                      maintainability_index(penalty))

\* _analyze_javascript_complexity: cyclomatic = 1 + keyword count,
\* cognitive = cyclomatic * 1.2 + max_nesting * 0.5
analyze_javascript_complexity(keywords, nesting, loc, penalty) ==
    ComplexityMetrics(80 * (1 + keywords),
                      96 * (1 + keywords) + 40 * nesting,
                      nesting, loc, 0, maintainability_index(penalty))

\* _analyze_generic_complexity
analyze_generic_complexity(loc, nesting) ==
    ComplexityMetrics(Max2(80, 8 * loc), Max2(80, 10 * loc), nesting, loc, 0,
                      Max2(0, 100 * 80 - 16 * loc))

\* the metrics analyze_file_complexity returns when the analysis raises
FailureMetrics == ComplexityMetrics(80, 80, 1, 0, 0, 100 * 80)

\* the weighted blend without the normalisation and the final clamp
overall_score_raw(m) ==
    25 * (m.cyclomatic_complexity * 2)
    + 30 * ((m.cognitive_complexity * 3) \div 2)
    + 15 * (m.nesting_depth * 10 * 80)
    + 20 * (m.code_duplication_ratio * 100)
    + 10 * (100 * 80 - m.maintainability_index)

\* ComplexityMetrics.overall_score
overall_score(m) ==
    LET normalized_cyclomatic == Min2(100 * 80, m.cyclomatic_complexity * 2)
        normalized_cognitive ==
            Min2(100 * 80, (m.cognitive_complexity * 3) \div 2)
        normalized_nesting == Min2(100 * 80, m.nesting_depth * 10 * 80)
        normalized_duplication == m.code_duplication_ratio * 100
        normalized_maintainability ==
            Max2(0, 100 * 80 - m.maintainability_index)
        s == 25 * normalized_cyclomatic
             + 30 * normalized_cognitive
             + 15 * normalized_nesting
             + 20 * normalized_duplication
             + 10 * normalized_maintainability
    IN  Min2(100 * 8000, Max2(0, s))

(* analyze_file_complexity and overall_score as a state machine *)

\* the line counts, depths, branch counts and maintainability penalties the
\* model draws from
LocValues == {0, 1, 10, 50 * MaxLocFactor, 500 * MaxLocFactor}
NestingValues == {0, 1, 10, 11}
CountValues == {0, 1, 49, 50 * MaxLocFactor}
PenaltyValues == {0, 71 * 80, 71 * 80 + 1, 171 * 80, 300 * 80}

SInit ==
    /\ CIdle /\ nfiles = 0 /\ dep_graph = <<>> /\ complexity_scores = <<>>
    /\ OIdle
    /\ DIdle
    /\ XIdle
    /\ spc = "start"
    /\ metrics = FailureMetrics
    /\ file_score = 0

\* lines 124-125: a Python file that parses
AnalyzePython ==
    /\ spc = "start"
    /\ \E branches \in CountValues, extra \in CountValues,
          nesting \in NestingValues, loc \in LocValues, penalty \in PenaltyValues :
          metrics' = analyze_python_complexity(branches, branches + extra,
                                               nesting, loc, penalty)
    /\ spc' = "analyzed"
    /\ UNCHANGED <<file_score, cvars, ovars, dvars, xvars>>

\* lines 126-127: a JavaScript or TypeScript file
AnalyzeJavascript ==
    /\ spc = "start"
    /\ \E keywords \in CountValues, nesting \in NestingValues,
          loc \in LocValues, penalty \in PenaltyValues :
          metrics' = analyze_javascript_complexity(keywords, nesting, loc, penalty)
    /\ spc' = "analyzed"
    /\ UNCHANGED <<file_score, cvars, ovars, dvars, xvars>>

\* lines 128-129 and 177-179: any other file, or a Python file with a
\* syntax error
AnalyzeGeneric ==
    /\ spc = "start"
    /\ \E loc \in LocValues, nesting \in NestingValues :
          metrics' = analyze_generic_complexity(loc, nesting)
    /\ spc' = "analyzed"
    /\ UNCHANGED <<file_score, cvars, ovars, dvars, xvars>>

\* lines 134-146: the analysis raised
AnalyzeFails ==
    /\ spc = "start"
    /\ metrics' = FailureMetrics
    /\ spc' = "analyzed"
    /\ UNCHANGED <<file_score, cvars, ovars, dvars, xvars>>

\* metrics.overall_score()
OverallScore ==
    /\ spc = "analyzed"
    /\ file_score' = overall_score(metrics)
    /\ spc' = "scored"
    /\ UNCHANGED <<metrics, cvars, ovars, dvars, xvars>>

\* analysis.py lines 74-87: the score analyze_project_enhanced computes from
\* complexity_data, the __dict__ of the file's ComplexityMetrics (so that no
\* default of .get is used): cyclomatic * 0.3 + cognitive * 0.4 + nesting * 5
\* + max(0, 100 - maintainability) * 0.3, clamped to [0, 100]
enhanced_complexity_score(m) ==
    LET s == 30 * m.cyclomatic_complexity
             + 40 * m.cognitive_complexity
             + 5 * 8000 * m.nesting_depth
             + 30 * Max2(0, 100 * 80 - m.maintainability_index)
    IN  Min2(100 * 8000, Max2(0, s))

\* analysis.py line 87: complexity_scores[file_path] = min(100, max(0, score))
StoreComplexityScore ==
    /\ spc = "scored"
    /\ stored_score' = enhanced_complexity_score(metrics)
    /\ spc' = "stored"
    /\ UNCHANGED <<metrics, file_score, vvars, yvars>>
    /\ UNCHANGED <<cvars, ovars, dvars, tvars, avars, bvars, small_indices>>

SNext ==
    \/ AnalyzeFails
    \/ AnalyzePython
    \/ AnalyzeJavascript
    \/ AnalyzeGeneric
    \/ OverallScore
    \/ StoreComplexityScore

----------------------------------------------------------------------------
(* Two runs of the analysis over the same files and configuration.         *)
(* list(s) of a set of strings enumerates s in the iteration order of the  *)
(* set, which follows the string hashes; these are randomised per process, *)
(* so each run may get any order.                                          *)

\* list(s): the possible results
ListOfSet(s) ==
    {l \in [1..Cardinality(s) -> s] : \A i, j \in 1..Cardinality(s) :
                                          i # j => l[i] # l[j]}

Runs == {1, 2}

\* the import sets the model draws from: file 1 imports nothing, a library,
\* the package and a library, or file 2 and a library; file 2 may import
\* file 1; the other files import nothing
DetDepGraphs(n) ==
    {[f \in 1..n |-> IF f = 1 THEN d1 ELSE IF f = 2 THEN d2 ELSE {}] :
        d1 \in {{}, {TokExternal}, {TokDir, TokExternal}, {TokOf(2), TokExternal}},
        d2 \in {{}, {TokFile1}}}

DInit ==
    /\ CIdle
    /\ SIdle
    /\ XIdle
    /\ nfiles \in 1..MaxDetFiles
    /\ dep_graph \in DetDepGraphs(nfiles)
    /\ complexity_scores = <<>>
    /\ clusters \in Compositions(nfiles)
    /\ opc = "idle"
    /\ llm_model = "generic"
    /\ file_tokens = <<>>
    /\ context_chunks = <<>>
    /\ remaining_chunks = <<>>
    /\ processed_chunks = {}
    /\ ordered_chunks = <<>>
    /\ loading_phases = <<>>
    /\ dpc = [r \in Runs |-> "start"]
    /\ run_dep_graph = [r \in Runs |-> <<>>]
    /\ run_dependencies = [r \in Runs |-> <<>>]

\* analysis.py lines 38-56: every file's dependency set is stored as
\* dep_graph[fpath] = list(deps)
AnalyzeProject(r) ==
    /\ dpc[r] = "start"
    /\ \E lists \in [1..nfiles -> UNION {ListOfSet(dep_graph[f]) : f \in 1..nfiles}] :
          /\ \A f \in 1..nfiles : lists[f] \in ListOfSet(dep_graph[f])
          /\ run_dep_graph' = [run_dep_graph EXCEPT ![r] = lists]
    /\ dpc' = [dpc EXCEPT ![r] = "analyzed"]
    /\ UNCHANGED <<run_dependencies, cvars, ovars, svars, xvars>>

\* llm_optimization.py lines 228-240: the dependencies of the chunk of every
\* cluster, return list(dependencies)
FindChunkDependencies(r) ==
    /\ dpc[r] = "analyzed"
    /\ LET deps == [f \in 1..nfiles |-> Range(run_dep_graph[r][f])]
           found == [c \in 1..Len(clusters) |->
                        find_chunk_dependencies(clusters[c], deps)]
       IN  \E lists \in [1..Len(clusters) ->
                           UNION {ListOfSet(found[c]) : c \in 1..Len(clusters)}] :
              /\ \A c \in 1..Len(clusters) : lists[c] \in ListOfSet(found[c])
              /\ run_dependencies' = [run_dependencies EXCEPT ![r] = lists]
    /\ dpc' = [dpc EXCEPT ![r] = "chunked"]
    /\ UNCHANGED <<run_dep_graph, cvars, ovars, svars, xvars>>

DNext ==
    \/ \E r \in Runs : AnalyzeProject(r)
    \/ \E r \in Runs : FindChunkDependencies(r)

----------------------------------------------------------------------------
(* technical_debt.py: TechnicalDebtAnalyzer.detect_debt_items.             *)
(* A file is what the detection reads of it: whether open() succeeds, its  *)
(* extension, for every line the set of debt patterns that match it, and,  *)
(* for a Python file, whether ast.parse succeeds and the class and         *)
(* function nodes in the order of ast.walk; for a JavaScript file the      *)
(* matches of the function pattern.                                        *)

\* _initialize_debt_patterns, in the order of the dict
DebtPatterns ==
    << [name |-> "TODO_FIXME",      severity |-> "medium",   category |-> "maintainability", effort |-> "hours"],
       [name |-> "MAGIC_NUMBERS",   severity |-> "low",      category |-> "maintainability", effort |-> "minutes"],
       [name |-> "DEEP_NESTING",    severity |-> "medium",   category |-> "complexity",      effort |-> "hours"],
       [name |-> "LONG_LINE",       severity |-> "low",      category |-> "maintainability", effort |-> "minutes"],
       [name |-> "UNSAFE_EVAL",     severity |-> "critical", category |-> "security",        effort |-> "days"],
       [name |-> "BROAD_EXCEPTION", severity |-> "medium",   category |-> "maintainability", effort |-> "minutes"] >>

TechnicalDebtItem(file_path, line_number, severity, category, description, estimated_effort) ==
    [file_path |-> file_path, line_number |-> line_number, severity |-> severity, category |-> category,
     description |-> description, estimated_effort |-> estimated_effort]

\* the items of one line: the patterns that match it, in dict order
LineItems(file_path, line_num, matching) ==
    LET hit(p) == \E i \in matching : DebtPatterns[i] = p
        found == SelectSeq(DebtPatterns, hit)
    IN  [k \in 1..Len(found) |->
            TechnicalDebtItem(file_path, line_num, found[k].severity, found[k].category,
                              found[k].name, found[k].effort)]

\* the loop over enumerate(lines, 1)
PatternItems(file_path, lines) ==
    Flatten([n \in 1..Len(lines) |-> LineItems(file_path, n, lines[n])])

\* end_lineno - lineno + 1
func_lines(node) == node.end_lineno - node.lineno + 1

\* the body of the loop over ast.walk(tree) in _detect_python_debt
NodeItems(file_path, node) ==
    (IF node.kind = "FunctionDef" /\ func_lines(node) > 50
        THEN << TechnicalDebtItem(file_path, node.lineno, "high", "complexity", "too long", "hours") >>
        ELSE << >>)
    \o
    (IF node.kind = "FunctionDef" /\ node.nargs > 5
        THEN << TechnicalDebtItem(file_path, node.lineno, "medium", "complexity", "too many parameters", "hours") >>
        ELSE << >>)

\* ast.parse raising (SyntaxError or another exception) leaves the list empty
detect_python_debt(file) ==
    IF ~file.parses THEN << >>
    ELSE Flatten([k \in 1..Len(file.nodes) |-> NodeItems(file.path, file.nodes[k])])

\* one match of the function pattern: end_pos > 0 when its closing brace is found
FunctionItems(file_path, fn) ==
    IF fn.closed /\ fn.func_lines > 30
        THEN << TechnicalDebtItem(file_path, fn.start_line, "medium", "complexity", "too long", "hours") >>
        ELSE << >>

detect_javascript_debt(file) ==
    Flatten([k \in 1..Len(file.functions) |-> FunctionItems(file.path, file.functions[k])])

\* open() raising is caught: the list is returned as it is, empty
detect_debt_items(file) ==
    IF ~file.readable THEN << >>
    ELSE PatternItems(file.path, file.lines)
         \o (IF file.ext = ".py" THEN detect_python_debt(file)
             ELSE IF file.ext \in {".js", ".ts"} THEN detect_javascript_debt(file)
             ELSE << >>)

(* detect_debt_items as a state machine *)

SeqsUpTo(S, n) == UNION {[1..k -> S] : k \in 0..n}

\* the patterns one line matches
LineMatches == {{}} \cup {{i} : i \in 1..Len(DebtPatterns)} \cup {{1, 2}}

\* the k-th node of the walk starts at line 100 * k
NodesAt(k) ==
    {[kind |-> "ClassDef", lineno |-> 100 * k, end_lineno |-> 100 * k + 54, nargs |-> 0]}
    \cup
    {[kind |-> kd, lineno |-> 100 * k, end_lineno |-> 100 * k + span - 1, nargs |-> na] :
        kd \in {"FunctionDef", "AsyncFunctionDef"}, span \in {50, 51}, na \in {5, 6}}

NodeLists == UNION {{s \in [1..n -> UNION {NodesAt(k) : k \in 1..n}] :
                        \A k \in 1..n : s[k] \in NodesAt(k)} : n \in 0..MaxFuncs}

FunctionMatches ==
    SeqsUpTo({[start_line |-> 7, closed |-> c, func_lines |-> n] :
                 c \in BOOLEAN, n \in {30, 31}}, 1)

DebtFiles(l, nd, fs) ==
    {[path |-> 1, readable |-> FALSE, ext |-> e, lines |-> << >>, parses |-> FALSE,
      nodes |-> << >>, functions |-> << >>] : e \in {".py", ".js", ".md"}}
    \cup
    {[path |-> 1, readable |-> TRUE, ext |-> ".py", lines |-> l, parses |-> FALSE,
      nodes |-> << >>, functions |-> << >>]}
    \cup
    {[path |-> 1, readable |-> TRUE, ext |-> ".py", lines |-> l, parses |-> TRUE,
      nodes |-> nd, functions |-> << >>]}
    \cup
    {[path |-> 1, readable |-> TRUE, ext |-> e, lines |-> l, parses |-> FALSE,
      nodes |-> << >>, functions |-> fs] : e \in {".js", ".ts"}}
    \cup
    {[path |-> 1, readable |-> TRUE, ext |-> ".md", lines |-> l, parses |-> FALSE,
      nodes |-> << >>, functions |-> << >>]}

TInit ==
    /\ CIdle /\ nfiles = 0 /\ dep_graph = <<>> /\ complexity_scores = <<>>
    /\ OIdle
    /\ SIdle
    /\ DIdle
    /\ MIdle
    /\ VIdle /\ EIdle /\ YIdle
    /\ AIdle
    /\ BIdle
    /\ tpc = "start"
    /\ \E l \in SeqsUpTo(LineMatches, MaxDebtLines), nd \in NodeLists,
          fs \in FunctionMatches :
          cur_file \in DebtFiles(l, nd, fs)
    /\ file_debt = << >>

DetectDebtItems ==
    /\ tpc = "start"
    /\ file_debt' = detect_debt_items(cur_file)
    /\ tpc' = "detected"
    /\ UNCHANGED <<cur_file, cvars, ovars, svars, dvars, avars, bvars, small_indices, zvars, yvars>>

TNext == DetectDebtItems

----------------------------------------------------------------------------

(* analysis.py: analyze_project and analyze_project_enhanced.              *)
(* A file of the walk is what the loop reads of it: whether its directory  *)
(* path contains an ignored name, whether its name starts with a dot, and  *)
(* whether reading it succeeds.                                            *)

WalkFiles == [ignored : BOOLEAN, dotfile : BOOLEAN, readable : BOOLEAN]

\* the files that pass both `continue` statements and reach count += 1
counted(file) == ~file.ignored /\ ~file.dotfile

\* a limit that is reached, not exceeded
exceeds_limit_at(n) == n >= MAX_FILES_PER_PROJECT

\* if count > MAX_FILES_PER_PROJECT
exceeds_limit(n) == n > MAX_FILES_PER_PROJECT

\* the shapes of a file that differ for the walk
WalkFileKinds ==
    {[ignored |-> TRUE,  dotfile |-> FALSE, readable |-> TRUE],
     [ignored |-> FALSE, dotfile |-> TRUE,  readable |-> TRUE],
     [ignored |-> FALSE, dotfile |-> FALSE, readable |-> FALSE],
     [ignored |-> FALSE, dotfile |-> FALSE, readable |-> TRUE]}

AInit ==
    /\ CIdle /\ nfiles = 0 /\ dep_graph = <<>> /\ complexity_scores = <<>>
    /\ OIdle
    /\ SIdle
    /\ DIdle
    /\ MIdle
    /\ VIdle /\ EIdle /\ YIdle
    /\ TIdle
    /\ BIdle
    /\ apc = "walk"
    /\ entry \in {"analyze_project", "analyze_project_enhanced"}
    /\ stage = (IF entry = "analyze_project_enhanced" THEN "try" ELSE "none")
    /\ project \in SeqsUpTo(WalkFileKinds, MAX_FILES_PER_PROJECT + 2)
    /\ wi = 0
    /\ count = 0
    /\ walk_dep_graph = << >>

\* both `continue` statements: an ignored directory, a dotfile
WalkSkip ==
    /\ apc = "walk"
    /\ wi < Len(project)
    /\ ~counted(project[wi + 1])
    /\ wi' = wi + 1
    /\ UNCHANGED <<apc, entry, stage, project, count, walk_dep_graph>>
    /\ UNCHANGED <<cvars, ovars, svars, dvars, tvars, bvars, small_indices, zvars, yvars>>

\* the file is counted and the count is within the limit: it is read, and
\* stored unless reading fails
WalkFile ==
    /\ apc = "walk"
    /\ wi < Len(project)
    /\ counted(project[wi + 1])
    /\ ~exceeds_limit(count + 1)
    /\ count' = count + 1
    /\ wi' = wi + 1
    /\ walk_dep_graph' = IF project[wi + 1].readable
                            THEN Append(walk_dep_graph, wi + 1)
                            ELSE walk_dep_graph
    /\ UNCHANGED <<apc, entry, stage, project>>
    /\ UNCHANGED <<cvars, ovars, svars, dvars, tvars, bvars, small_indices, zvars, yvars>>

\* the file is counted and the count exceeds the limit: analyze_project
\* raises.  Inside the try of analyze_project_enhanced the except branch
\* calls analyze_project(root_dir) again; anywhere else the exception leaves.
WalkLimit ==
    /\ apc = "walk"
    /\ wi < Len(project)
    /\ counted(project[wi + 1])
    /\ exceeds_limit(count + 1)
    /\ IF stage = "try"
          THEN /\ stage' = "except"
               /\ wi' = 0
               /\ count' = 0
               /\ walk_dep_graph' = << >>
               /\ apc' = "walk"
          ELSE /\ apc' = "raised"
               /\ count' = count + 1
               /\ UNCHANGED <<stage, wi, walk_dep_graph>>
    /\ UNCHANGED <<entry, project>>
    /\ UNCHANGED <<cvars, ovars, svars, dvars, tvars, bvars, small_indices, zvars, yvars>>

\* the walk is over: dep_graph is returned
WalkReturn ==
    /\ apc = "walk"
    /\ wi = Len(project)
    /\ apc' = "returned"
    /\ UNCHANGED <<entry, stage, project, wi, count, walk_dep_graph>>
    /\ UNCHANGED <<cvars, ovars, svars, dvars, tvars, bvars, small_indices, zvars, yvars>>

ANext ==
    \/ WalkSkip
    \/ WalkFile
    \/ WalkLimit
    \/ WalkReturn

----------------------------------------------------------------------------

(* technical_debt.py: analyze_project_debt and generate_action_plan.       *)
(* Of the action plan the model carries total_debt_items,                  *)
(* severity_breakdown and quick_wins.  The complexity cache is keyed by    *)
(* path and the paths of one dep_graph differ, so within one call it never *)
(* answers.                                                                *)

\* analyze_file_complexity: the metrics by extension; a Python file with a
\* syntax error gets the generic estimate; open() or the analysis raising
\* anything else gives the default metrics of the except branch
analyze_file_complexity(file) ==
    IF ~file.readable THEN FailureMetrics
    ELSE IF file.ext = ".py"
        THEN IF file.parses
                THEN analyze_python_complexity(Len(file.nodes), Len(file.nodes),
                                               file.nesting, file.loc, 0)
             ELSE IF file.parse_error = "SyntaxError"
                THEN analyze_generic_complexity(file.loc, file.nesting)
             ELSE FailureMetrics
    ELSE IF file.ext \in {".js", ".ts"}
        THEN analyze_javascript_complexity(Len(file.functions), file.nesting,
                                           file.loc, 0)
    ELSE analyze_generic_complexity(file.loc, file.nesting)

Count(items, sev) ==
    Cardinality({i \in DOMAIN items : items[i].severity = sev})

FirstN(s, n) == SubSeq(s, 1, Min2(n, Len(s)))

\* a quick win: an item of minutes with one of the severities
is_quick_win(item, severities) ==
    item.estimated_effort = "minutes" /\ item.severity \in severities

quick_wins(items, severities) ==
    LET keep(item) == is_quick_win(item, severities)
    IN  FirstN(SelectSeq(items, keep), 5)

\* the list of severities in generate_action_plan: ['medium', 'high']
QuickWinSeverities == {"medium", "high"}

generate_action_plan(items) ==
    [total_debt_items |-> Len(items),
     severity_breakdown |->
         [sev \in {"critical", "high", "medium", "low"} |-> Count(items, sev)],
     quick_wins |-> quick_wins(items, QuickWinSeverities)]

(* analyze_project_debt as a state machine *)

BatchLines == SeqsUpTo({{1}, {6}}, MaxDebtLines)

LongFunction == [kind |-> "FunctionDef", lineno |-> 100, end_lineno |-> 154, nargs |-> 0]

\* the files at position i of dep_graph.keys()
BatchFilesAt(i) ==
    LET base == [path |-> i, exists |-> TRUE, readable |-> TRUE, ext |-> ".py",
                 parses |-> FALSE, parse_error |-> "none", lines |-> << >>,
                 nodes |-> << >>, functions |-> << >>, loc |-> 10 * i, nesting |-> 2]
    IN  {[base EXCEPT !.exists = FALSE, !.readable = FALSE],
         [base EXCEPT !.readable = FALSE]}
        \cup {[base EXCEPT !.parses = TRUE, !.lines = l, !.nodes = nd] :
                 l \in BatchLines, nd \in {<< >>, <<LongFunction>>}}
        \cup {[base EXCEPT !.parse_error = e, !.lines = l] :
                 l \in BatchLines, e \in {"SyntaxError", "ValueError"}}
        \cup {[base EXCEPT !.ext = e, !.lines = l] :
                 l \in BatchLines, e \in {".js", ".md"}}

Batches(n) ==
    {b \in [1..n -> UNION {BatchFilesAt(i) : i \in 1..n}] :
        \A i \in 1..n : b[i] \in BatchFilesAt(i)}

BInit ==
    /\ CIdle /\ nfiles = 0 /\ dep_graph = <<>> /\ complexity_scores = <<>>
    /\ OIdle
    /\ SIdle
    /\ DIdle
    /\ MIdle
    /\ VIdle /\ EIdle /\ YIdle
    /\ TIdle
    /\ AIdle
    /\ bpc = "loop"
    /\ \E n \in 0..MaxBatchFiles : batch \in Batches(n)
    /\ bi = 0
    /\ file_complexities = << >>
    /\ debt_items = << >>
    /\ action_plan = << >>

\* os.path.exists(file_path) is false: nothing is done for the file
BatchMissing ==
    /\ bpc = "loop"
    /\ bi < Len(batch)
    /\ ~batch[bi + 1].exists
    /\ bi' = bi + 1
    /\ UNCHANGED <<bpc, batch, file_complexities, debt_items, action_plan>>
    /\ UNCHANGED <<cvars, ovars, svars, dvars, tvars, avars, small_indices, zvars, yvars>>

\* the file exists: its metrics are stored and its debt items appended
BatchFile ==
    /\ bpc = "loop"
    /\ bi < Len(batch)
    /\ batch[bi + 1].exists
    /\ file_complexities' =
          [p \in DOMAIN file_complexities \cup {batch[bi + 1].path} |->
              IF p = batch[bi + 1].path
                  THEN analyze_file_complexity(batch[bi + 1])
                  ELSE file_complexities[p]]
    /\ debt_items' = debt_items \o detect_debt_items(batch[bi + 1])
    /\ bi' = bi + 1
    /\ UNCHANGED <<bpc, batch, action_plan>>
    /\ UNCHANGED <<cvars, ovars, svars, dvars, tvars, avars, small_indices, zvars, yvars>>

\* after the loop: the action plan and the report
BatchReport ==
    /\ bpc = "loop"
    /\ bi = Len(batch)
    /\ action_plan' = generate_action_plan(debt_items)
    /\ bpc' = "done"
    /\ UNCHANGED <<batch, bi, file_complexities, debt_items>>
    /\ UNCHANGED <<cvars, ovars, svars, dvars, tvars, avars, small_indices, zvars, yvars>>

BNext ==
    \/ BatchMissing
    \/ BatchFile
    \/ BatchReport

(* generate_action_plan over any list of debt items *)

\* the severities and efforts of TechnicalDebtItem that differ for the plan
PlanItemKinds ==
    {<<"medium", "minutes">>, <<"high", "minutes">>, <<"critical", "minutes">>,
     <<"low", "minutes">>, <<"high", "hours">>}

\* the k-th item detected is at line k
PlanItems(kinds) ==
    [k \in DOMAIN kinds |->
        TechnicalDebtItem(1, k, kinds[k][1], "complexity", "item", kinds[k][2])]

PInit ==
    /\ CIdle /\ nfiles = 0 /\ dep_graph = <<>> /\ complexity_scores = <<>>
    /\ OIdle
    /\ SIdle
    /\ DIdle
    /\ MIdle
    /\ VIdle /\ EIdle /\ YIdle
    /\ TIdle
    /\ AIdle
    /\ bpc = "plan"
    /\ batch = << >>
    /\ bi = 0
    /\ file_complexities = << >>
    /\ \E n \in 0..MaxPlanItems : \E kinds \in [1..n -> PlanItemKinds] :
          debt_items = PlanItems(kinds)
    /\ action_plan = << >>

GenerateActionPlan ==
    /\ bpc = "plan"
    /\ action_plan' = generate_action_plan(debt_items)
    /\ bpc' = "planned"
    /\ UNCHANGED <<batch, bi, file_complexities, debt_items>>
    /\ UNCHANGED <<cvars, ovars, svars, dvars, tvars, avars, small_indices, zvars, yvars>>

PNext == GenerateActionPlan

----------------------------------------------------------------------------

(* clustering.py: _optimize_clusters over any list of clusters and any     *)
(* weighted graph, the loop of _merge_small_clusters one round at a time.  *)
(* The weights of the graph are in hundredths.                             *)

\* score = connectivity * size_bonus of _find_best_merge_target
merge_score(small, target, g, minsize) ==
    LET connectivity == inter_cluster_connectivity(small, target, g)
    IN  IF Len(target) < minsize
        THEN <<2 * connectivity[1], 2 * connectivity[2]>>
        ELSE <<connectivity[1], 2 * connectivity[2]>>

\* the graphs the model draws from: a chain over the files, each link
\* absent or of weight 0.04 or 0.06
ChainGraphs(n) ==
    {[e \in {{f, f + 1} : f \in links} |-> w[CHOOSE f \in e : f + 1 \in e]] :
        links \in SUBSET (1..(n - 1)), w \in [1..(n - 1) -> {4, 6}]}

MergeInit ==
    /\ OIdle
    /\ SIdle
    /\ DIdle
    /\ TIdle
    /\ AIdle
    /\ BIdle
    /\ VIdle /\ EIdle /\ YIdle
    /\ pc = "optimize"
    /\ nfiles \in 2..MaxMergeFiles
    /\ dep_graph = <<>>
    /\ complexity_scores = <<>>
    /\ max_cluster_size \in 1..MaxClusterSizeBound
    /\ min_cluster_size \in 1..MinClusterSizeBound
    /\ min_cluster_size <= max_cluster_size
    /\ G \in ChainGraphs(nfiles)
    /\ initial_clusters \in Compositions(nfiles)
    /\ optimized = <<>>
    /\ oi = 1
    /\ raised = FALSE
    /\ result = <<>>
    /\ small_indices = <<>>

\* _optimize_clusters line 231, _merge_small_clusters lines 290-297: the
\* indices of the small clusters and the copy of the list
MergeStart ==
    /\ pc = "optimize"
    /\ oi > Len(initial_clusters)
    /\ small_indices' = SelectSeq([i \in 1..Len(optimized) |-> i],
                                   LAMBDA i : Len(optimized[i]) < min_cluster_size)
    /\ pc' = "merge"
    /\ UNCHANGED <<nfiles, dep_graph, complexity_scores, max_cluster_size,
                   min_cluster_size, G, initial_clusters, optimized, oi, raised,
                   result>>
    /\ UNCHANGED <<ovars, svars, dvars, tvars, avars, bvars, zvars, yvars>>

\* lines 299-305: one round of the loop over reversed(small_clusters)
MergeStep ==
    /\ pc = "merge"
    /\ small_indices # <<>>
    /\ LET i == small_indices[Len(small_indices)]
           small == optimized[i]
           target == find_best_merge_target(small, optimized, i, G,
                                            max_cluster_size, min_cluster_size)
       IN  optimized' = IF target > 0
                           THEN Pop([optimized EXCEPT ![target] = @ \o small], i)
                           ELSE optimized
    /\ small_indices' = SubSeq(small_indices, 1, Len(small_indices) - 1)
    /\ UNCHANGED <<pc, nfiles, dep_graph, complexity_scores, max_cluster_size,
                   min_cluster_size, G, initial_clusters, oi, raised, result>>
    /\ UNCHANGED <<ovars, svars, dvars, tvars, avars, bvars, zvars, yvars>>

\* lines 307 and 233: the merged list without its empty clusters
MergeReturn ==
    /\ pc = "merge"
    /\ small_indices = <<>>
    /\ result' = SelectSeq(optimized, LAMBDA c : c # <<>>)
    /\ pc' = "done"
    /\ UNCHANGED <<nfiles, dep_graph, complexity_scores, max_cluster_size,
                   min_cluster_size, G, initial_clusters, optimized, oi, raised,
                   small_indices>>
    /\ UNCHANGED <<ovars, svars, dvars, tvars, avars, bvars, zvars, yvars>>

MergeNext ==
    \/ OptimizeStep
    \/ MergeStart
    \/ MergeStep
    \/ MergeReturn

----------------------------------------------------------------------------

----------------------------------------------------------------------------
(* llm_optimization.py: _generate_overflow_strategy, lines 564-608.  The   *)
(* entries overflow_ratio (the ratio rounded to two places) and            *)
(* strategy_description (a fixed text per strategy) of the returned dict,  *)
(* which nothing else depends on, are left out.                            *)

\* line 566: sum(chunk.token_estimate.total_tokens for chunk in chunks)
chunks_total_tokens(chunks) ==
    SumSeq([i \in 1..Len(chunks) |-> chunks[i].token_estimate.total_tokens])

\* lines 580-587: the strategy for overflow_ratio = total_tokens /
\* max_tokens; ratio <= 1.5 is 2 * total_tokens <= 3 * max_tokens
recommended_strategy(total_tokens, max_tokens) ==
    IF 2 * total_tokens <= 3 * max_tokens THEN "prioritize_core"
    ELSE IF total_tokens <= 2 * max_tokens THEN "summarize_supporting"
    ELSE IF total_tokens <= 3 * max_tokens THEN "progressive_detail"
    ELSE "chunk_selection"

\* line 590: sorted(chunks, key=lambda x: x.priority_score, reverse=True),
\* a stable sort: of equal scores the earlier chunk comes first
RECURSIVE priority_sorted_chunks(_)
priority_sorted_chunks(chunks) ==
    IF chunks = <<>> THEN <<>>
    ELSE LET first == CHOOSE i \in 1..Len(chunks) :
                 /\ \A j \in 1..Len(chunks) :
                       ~FracGreater(chunks[j].priority_score,
                                    chunks[i].priority_score)
                 /\ \A j \in 1..(i - 1) :
                       FracGreater(chunks[i].priority_score,
                                   chunks[j].priority_score)
         IN  <<chunks[first]>> \o priority_sorted_chunks(
                 SubSeq(chunks, 1, first - 1)
                 \o SubSeq(chunks, first + 1, Len(chunks)))

\* a test that lets every chunk in
fits_always(running_tokens, chunk_tokens, max_tokens) == TRUE

\* line 595: running_tokens + chunk.token_estimate.total_tokens <= max_tokens
fits_budget(running_tokens, chunk_tokens, max_tokens) == running_tokens + chunk_tokens <= max_tokens

\* lines 594-599: the selection loop from chunk i of the sorted list on; it
\* breaks at the first chunk that does not fit
RECURSIVE SelectScan(_, _, _, _, _)
SelectScan(sorted, i, max_tokens, selected_chunks, running_tokens) ==
    IF i > Len(sorted)
    THEN [selected_chunks |-> selected_chunks, running_tokens |-> running_tokens]
    ELSE IF fits_budget(running_tokens,
                        sorted[i].token_estimate.total_tokens, max_tokens)
         THEN SelectScan(sorted, i + 1, max_tokens,
                  Append(selected_chunks, sorted[i].chunk_id),
                  running_tokens + sorted[i].token_estimate.total_tokens)
         ELSE [selected_chunks |-> selected_chunks,
               running_tokens |-> running_tokens]

\* _generate_overflow_strategy
generate_overflow_strategy(chunks, max_tokens) ==
    LET total_tokens == chunks_total_tokens(chunks)
        scan == SelectScan(priority_sorted_chunks(chunks), 1, max_tokens, <<>>, 0)
    IN  IF total_tokens <= max_tokens
        THEN [overflow_risk |-> "none", strategy |-> "load_all"]
        ELSE [overflow_risk |-> IF total_tokens > 2 * max_tokens
                                THEN "high" ELSE "medium",
              recommended_strategy |->
                  recommended_strategy(total_tokens, max_tokens),
              selected_chunks |-> scan.selected_chunks,
              tokens_saved |-> total_tokens - scan.running_tokens]

(* _generate_overflow_strategy as a state machine *)

\* the chunk lists the model draws from: up to MaxOverflowChunks chunks with
\* the ids of _create_context_chunks, 0..MaxChunkTokens tokens each and a
\* priority score of 0.1 .. MaxPriority / 10
OverflowChunks(toks, prios) ==
    [i \in DOMAIN toks |->
        [chunk_id |-> <<i - 1>>,
         token_estimate |-> [total_tokens |-> toks[i]],
         priority_score |-> <<prios[i], 10>>]]

VInit ==
    /\ CIdle /\ nfiles = 0 /\ dep_graph = <<>> /\ complexity_scores = <<>>
    /\ OIdle
    /\ SIdle
    /\ DIdle
    /\ TIdle /\ AIdle /\ BIdle /\ MIdle /\ EIdle /\ YIdle
    /\ vpc = "call"
    /\ \E n \in 0..MaxOverflowChunks :
          \E toks \in [1..n -> 0..MaxChunkTokens],
             prios \in [1..n -> 1..MaxPriority] :
              overflow_chunks = OverflowChunks(toks, prios)
    /\ overflow_max_tokens \in 1..MaxBudget
    /\ overflow_strategy = <<>>

\* line 550: self._generate_overflow_strategy(chunks, max_tokens)
GenerateOverflowStrategy ==
    /\ vpc = "call"
    /\ overflow_strategy' =
           generate_overflow_strategy(overflow_chunks, overflow_max_tokens)
    /\ vpc' = "returned"
    /\ UNCHANGED <<overflow_chunks, overflow_max_tokens, stored_score, yvars>>
    /\ UNCHANGED <<cvars, ovars, svars, dvars, tvars, avars, bvars, small_indices>>

VNext == GenerateOverflowStrategy

----------------------------------------------------------------------------
(* llm_index/utils.py: the process-wide registry _TEMP_SESSIONS, and the   *)
(* request handlers of src/api that register a session in it.  A session  *)
(* id is a uuid4 string; the model's ids are numbers whose order stands   *)
(* for the order of the strings, and any unused id can be drawn.  A temp  *)
(* directory is named by the number of the mkdtemp call that made it.     *)
(* A call of unique_tempdir or cleanup_tempdir is one step.               *)

\* sorted(_TEMP_SESSIONS)[:5], the batch scaled to ExpireBatch
RECURSIVE sorted_sids(_)
sorted_sids(sids) ==
    IF sids = {} THEN <<>>
    ELSE LET least == CHOOSE x \in sids : \A y \in sids : x <= y
         IN  <<least>> \o sorted_sids(sids \ {least})

\* utils.py lines 9-13: the sessions unique_tempdir expires
expired_sessions(sessions) ==
    IF Cardinality(DOMAIN sessions) > MAX_TEMP_SESSIONS
    THEN Range(SubSeq(sorted_sids(DOMAIN sessions), 1,
                      Min2(ExpireBatch, Cardinality(DOMAIN sessions))))
    ELSE {}

\* utils.py lines 7-17: _TEMP_SESSIONS after unique_tempdir registered sid
unique_tempdir(sessions, sid, tempdir) ==
    [s \in ((DOMAIN sessions) \ expired_sessions(sessions)) \cup {sid} |->
        IF s = sid THEN tempdir ELSE sessions[s]]

\* a cleanup that leaves the registry as it is
cleanup_tempdir_never(sessions, sid) == sessions

\* utils.py lines 19-22: _TEMP_SESSIONS after cleanup_tempdir(sid)
cleanup_tempdir(sessions, sid) == IF sid \in DOMAIN sessions THEN [s \in (DOMAIN sessions) \ {sid} |-> sessions[s]] ELSE sessions

\* the directories cleanup_tempdir(sid) removes with shutil.rmtree
cleanup_removes(sessions, sid) ==
    IF sid \in DOMAIN sessions THEN {sessions[sid]} ELSE {}

Handlers == {"analyze", "scan", "refactor", "github_import"}

\* the ways a handler leaves its body once unique_tempdir has returned:
\* an exception of validate_archive_extension, shutil.unpack_archive,
\* subprocess.run, scan_for_malware, the analysis or the refactor, a return
\* from inside the try block, or the end of the block
Outcomes(h) ==
    IF h = "analyze"
    THEN {"invalid_extension", "extraction_failed", "malware", "timeout",
          "analysis_failed", "success"}
    ELSE IF h = "scan"
    THEN {"invalid_extension", "extraction_failed", "malware", "success"}
    ELSE IF h = "refactor"
    THEN {"invalid_extension", "extraction_failed", "malware",
          "analysis_failed", "dry_run", "refactor_failed", "success"}
    ELSE {"clone_failed", "malware", "analysis_failed", "success"}

\* how the handler leaves its try block: through the except block, by a
\* return inside the block (analyze after a failed extraction, refactor after
\* a dry run), or at its end
exit_path(h, outcome) ==
    IF outcome = "success" THEN "end"
    ELSE IF outcome = "dry_run" \/ (h = "analyze" /\ outcome = "extraction_failed")
         THEN "return"
         ELSE "except"

Request(position, sid, tempdir, path) ==
    [rpc |-> position, sid |-> sid, tempdir |-> tempdir, path |-> path]

\* the session ids no request has drawn
UnusedSids ==
    (1..MaxRequests) \ {requests[r].sid : r \in DOMAIN requests}

\* every request has reached its handler: `tempdir, sid = None, None`
WInit ==
    /\ CIdle /\ nfiles = 0 /\ dep_graph = <<>> /\ complexity_scores = <<>>
    /\ OIdle
    /\ SIdle
    /\ DIdle
    /\ TIdle /\ AIdle /\ BIdle /\ MIdle /\ VIdle /\ EIdle
    /\ KIdle /\ RIdle
    /\ TEMP_SESSIONS = <<>>
    /\ tempdirs = {}
    /\ made = 0
    /\ requests = [r \in 1..MaxRequests |-> Request("try", 0, 0, "none")]

\* the handler returns or raises before unique_tempdir (no file, a file
\* above 5MB, a missing or invalid repo parameter); the finally block finds
\* sid = None
ReturnsBeforeSession ==
    /\ \E r \in DOMAIN requests :
          /\ requests[r].rpc = "try"
          /\ requests' = [requests EXCEPT ![r].rpc = "returned",
                                          ![r].path = "rejected"]
    /\ UNCHANGED <<TEMP_SESSIONS, tempdirs, made>>
    /\ UNCHANGED <<cvars, ovars, svars, dvars, tvars, avars, bvars, small_indices, zvars, kvars, rvars>>

\* `tempdir, sid = unique_tempdir()`
UniqueTempdir ==
    /\ \E r \in DOMAIN requests, sid \in UnusedSids :
          /\ requests[r].rpc = "try"
          /\ TEMP_SESSIONS' = unique_tempdir(TEMP_SESSIONS, sid, made + 1)
          /\ tempdirs' = (tempdirs \ {TEMP_SESSIONS[s] :
                              s \in expired_sessions(TEMP_SESSIONS)})
                         \cup {made + 1}
          /\ requests' = [requests EXCEPT ![r].rpc = "body", ![r].sid = sid,
                                          ![r].tempdir = made + 1]
    /\ made' = made + 1
    /\ UNCHANGED <<cvars, ovars, svars, dvars, tvars, avars, bvars, small_indices, zvars, kvars, rvars>>

\* the rest of the try block, for an exception the except block, and the
\* finally block `if sid: cleanup_tempdir(sid)`: the handler returns
HandlerReturns ==
    /\ \E r \in DOMAIN requests :
          /\ requests[r].rpc = "body"
          /\ TEMP_SESSIONS' = cleanup_tempdir(TEMP_SESSIONS, requests[r].sid)
          /\ tempdirs' = tempdirs \ cleanup_removes(TEMP_SESSIONS, requests[r].sid)
          /\ \E h \in Handlers : \E outcome \in Outcomes(h) :
                requests' = [requests EXCEPT ![r].rpc = "returned",
                                             ![r].path = exit_path(h, outcome)]
    /\ UNCHANGED made
    /\ UNCHANGED <<cvars, ovars, svars, dvars, tvars, avars, bvars, small_indices, zvars, kvars, rvars>>

\* cleanup_tempdir called once more with the sid of a returned request
CleanupAgain ==
    /\ \E r \in DOMAIN requests :
          /\ requests[r].rpc = "returned"
          /\ requests[r].sid # 0
          /\ TEMP_SESSIONS' = cleanup_tempdir(TEMP_SESSIONS, requests[r].sid)
          /\ tempdirs' = tempdirs \ cleanup_removes(TEMP_SESSIONS, requests[r].sid)
          /\ requests' = [requests EXCEPT ![r].rpc = "cleaned_again",
                                          ![r].path = "none"]
    /\ UNCHANGED made
    /\ UNCHANGED <<cvars, ovars, svars, dvars, tvars, avars, bvars, small_indices, zvars, kvars, rvars>>

WNext ==
    \/ ReturnsBeforeSession
    \/ UniqueTempdir
    \/ HandlerReturns
    \/ CleanupAgain

----------------------------------------------------------------------------
(* llm_optimization.py: _categorize_python_content and                     *)
(* _categorize_js_content.  A line is the sequence of the tokens the       *)
(* classifiers look for, in the order they stand on the line: "Q3" is      *)
(* three double quotes, "A3" three single quotes, "HASH" a #, "OPEN" a     *)
(* slash-star, "JSDOC" a slash-star-star, "CLOSE" a star-slash, "SLASHES" *)
(* two slashes and "TEXT" any other text.  A blank line is <<>>.           *)

\* `'...' in line`
InLine(token, line) == token \in Range(line)

\* `stripped.startswith(...)`
StartsWith(line, token) == line # <<>> /\ line[1] = token

\* what one iteration does: the flags after it and the list the line goes to
Categorized(category, docstring, quotes, block, jsdoc) ==
    [category |-> category, in_docstring |-> docstring,
     docstring_quotes |-> quotes, in_block_comment |-> block,
     in_jsdoc |-> jsdoc]

\* lines 762-783: the body of the loop of _categorize_python_content
categorize_python_line(line, docstring, quotes) ==
    IF line = <<>> THEN Categorized("skipped", docstring, quotes, FALSE, FALSE)
    ELSE IF InLine("Q3", line) \/ InLine("A3", line)
    THEN IF ~docstring
         THEN Categorized("doc", TRUE,
                  IF InLine("Q3", line) THEN "Q3" ELSE "A3", FALSE, FALSE)
         ELSE IF InLine(quotes, line)
         THEN Categorized("doc", FALSE, quotes, FALSE, FALSE)
         ELSE Categorized("doc", docstring, quotes, FALSE, FALSE)
    ELSE IF docstring THEN Categorized("doc", docstring, quotes, FALSE, FALSE)
    ELSE IF StartsWith(line, "HASH")
    THEN Categorized("comment", docstring, quotes, FALSE, FALSE)
    ELSE Categorized("code", docstring, quotes, FALSE, FALSE)

\* lines 798-828: the body of the loop of _categorize_js_content
categorize_js_line(line, block, jsdoc) ==
    IF line = <<>> THEN Categorized("skipped", FALSE, "none", block, jsdoc)
    ELSE IF InLine("OPEN", line) \/ InLine("JSDOC", line)
    THEN IF InLine("JSDOC", line)
         THEN Categorized("doc", FALSE, "none", block, TRUE)
         ELSE Categorized("comment", FALSE, "none", TRUE, jsdoc)
    ELSE IF InLine("CLOSE", line)
    THEN IF jsdoc
         THEN Categorized("doc", FALSE, "none", block, FALSE)
         ELSE Categorized("comment", FALSE, "none", FALSE, jsdoc)
    ELSE IF jsdoc THEN Categorized("doc", FALSE, "none", block, jsdoc)
    ELSE IF block THEN Categorized("comment", FALSE, "none", block, jsdoc)
    ELSE IF StartsWith(line, "SLASHES")
    THEN Categorized("comment", FALSE, "none", block, jsdoc)
    ELSE Categorized("code", FALSE, "none", block, jsdoc)

\* `xxx_lines.append(line)` for the list of the category
AppendTo(list, category, got, line) ==
    IF got = category THEN Append(list, line) ELSE list

\* the lines the model draws from: blank, code, a comment, a line that opens
\* or closes a region, a line that closes one, a region on one line
PythonLines ==
    {<<>>, <<"TEXT">>, <<"HASH", "TEXT">>,
     <<"Q3", "TEXT">>, <<"TEXT", "Q3">>, <<"A3", "TEXT">>,
     <<"Q3", "TEXT", "Q3">>, <<"A3", "TEXT", "A3">>}

JsLines ==
    {<<>>, <<"TEXT">>, <<"SLASHES", "TEXT">>,
     <<"OPEN", "TEXT">>, <<"JSDOC", "TEXT">>, <<"TEXT", "CLOSE">>,
     <<"OPEN", "TEXT", "CLOSE">>, <<"JSDOC", "TEXT", "CLOSE">>}

LinesOf(language) == IF language = "python" THEN PythonLines ELSE JsLines

KInit ==
    /\ CIdle /\ nfiles = 0 /\ dep_graph = <<>> /\ complexity_scores = <<>>
    /\ OIdle
    /\ SIdle
    /\ DIdle
    /\ TIdle /\ AIdle /\ BIdle /\ MIdle /\ VIdle /\ EIdle
    /\ WIdle /\ RIdle
    /\ kpc = "loop"
    /\ lang \in {"python", "js"}
    /\ \E n \in 0..MaxSourceLines : source_lines \in [1..n -> LinesOf(lang)]
    /\ li = 0
    /\ in_docstring = FALSE
    /\ docstring_quotes = "none"
    /\ in_block_comment = FALSE
    /\ in_jsdoc = FALSE
    /\ code_lines = <<>>
    /\ comment_lines = <<>>
    /\ doc_lines = <<>>

\* one iteration of `for line in lines` of _categorize_python_content
CategorizePythonLine ==
    /\ kpc = "loop"
    /\ lang = "python"
    /\ li < Len(source_lines)
    /\ LET line == source_lines[li + 1]
           got == categorize_python_line(line, in_docstring, docstring_quotes)
       IN  /\ in_docstring' = got.in_docstring
           /\ docstring_quotes' = got.docstring_quotes
           /\ code_lines' = AppendTo(code_lines, "code", got.category, line)
           /\ comment_lines' = AppendTo(comment_lines, "comment", got.category, line)
           /\ doc_lines' = AppendTo(doc_lines, "doc", got.category, line)
    /\ li' = li + 1
    /\ UNCHANGED <<kpc, lang, source_lines, in_block_comment, in_jsdoc>>
    /\ UNCHANGED <<cvars, ovars, svars, dvars, tvars, avars, bvars, small_indices, zvars, wvars, rvars>>

\* one iteration of `for line in lines` of _categorize_js_content
CategorizeJsLine ==
    /\ kpc = "loop"
    /\ lang = "js"
    /\ li < Len(source_lines)
    /\ LET line == source_lines[li + 1]
           got == categorize_js_line(line, in_block_comment, in_jsdoc)
       IN  /\ in_block_comment' = got.in_block_comment
           /\ in_jsdoc' = got.in_jsdoc
           /\ code_lines' = AppendTo(code_lines, "code", got.category, line)
           /\ comment_lines' = AppendTo(comment_lines, "comment", got.category, line)
           /\ doc_lines' = AppendTo(doc_lines, "doc", got.category, line)
    /\ li' = li + 1
    /\ UNCHANGED <<kpc, lang, source_lines, in_docstring, docstring_quotes>>
    /\ UNCHANGED <<cvars, ovars, svars, dvars, tvars, avars, bvars, small_indices, zvars, wvars, rvars>>

\* lines 785 and 830: return code_lines, comment_lines, doc_lines
CategorizeReturn ==
    /\ kpc = "loop"
    /\ li = Len(source_lines)
    /\ kpc' = "returned"
    /\ UNCHANGED <<lang, source_lines, li, in_docstring, docstring_quotes,
                   in_block_comment, in_jsdoc, code_lines, comment_lines,
                   doc_lines>>
    /\ UNCHANGED <<cvars, ovars, svars, dvars, tvars, avars, bvars, small_indices, zvars, wvars, rvars>>

KNext ==
    \/ CategorizePythonLine
    \/ CategorizeJsLine
    \/ CategorizeReturn

----------------------------------------------------------------------------
(* llm_index/refactor.py and api/refactor.py: the refactor plans and the   *)
(* moves.  A path is <<directory, base name>>; a directory is              *)
(* <<name, number>>, "src" for the directories of the project.  The files  *)
(* on disk are a function from the paths that exist to what they hold: a   *)
(* source file holds its own original path, a summary file holds the path  *)
(* <<<<"module_info", 0>>, 0>>, which no source file has.                  *)

\* os.path.basename(file)
basename(file) == file[2]

\* os.path.join(target_dir, name)
path_join(target_dir, name) == <<target_dir, name>>

\* complexity_scores.get(f, 0)
ScoreAt(scores, f) == IF f \in DOMAIN scores THEN scores[f] ELSE 0

\* dry_run_refactor: the plan, cluster by cluster
dry_run_refactor(cls) ==
    Flatten([idx \in 1..Len(cls) |->
        [k \in 1..Len(cls[idx]) |->
            [from |-> cls[idx][k],
             to |-> path_join(<<"llm_cluster", idx>>, basename(cls[idx][k]))]]])

\* shutil.move(src, dst) inside try/except: a file at dst is replaced; a
\* missing src raises, which is logged
shutil_move(fs, src, dst) ==
    IF src \in DOMAIN fs
    THEN [p \in ((DOMAIN fs) \ {src}) \cup {dst} |->
             IF p = dst THEN fs[src] ELSE fs[p]]
    ELSE fs

\* `for file in cluster: shutil.move(file, join(target_dir, basename(file)))`
\* from file k of the cluster on
RECURSIVE move_cluster(_, _, _, _)
move_cluster(fs, cluster, target_dir, k) ==
    IF k > Len(cluster) THEN fs
    ELSE move_cluster(
             shutil_move(fs, cluster[k],
                         path_join(target_dir, basename(cluster[k]))),
             cluster, target_dir, k + 1)

\* perform_refactor from cluster idx on
RECURSIVE perform_refactor_from(_, _, _)
perform_refactor_from(cls, fs, idx) ==
    IF idx > Len(cls) THEN fs
    ELSE perform_refactor_from(cls,
             move_cluster(fs, cls[idx], <<"llm_cluster", idx>>, 1), idx + 1)

perform_refactor(cls, fs) == perform_refactor_from(cls, fs, 1)

\* sum(complexity_scores.get(f, 0) for f in cluster)
cluster_complexity(cluster, scores) ==
    SumSeq([k \in 1..Len(cluster) |-> ScoreAt(scores, cluster[k])])

\* the directory name chosen from avg_complexity = sum / len(cluster)
directory_type(cluster, scores) ==
    IF cluster_complexity(cluster, scores) > 70 * Len(cluster)
    THEN "core_complex"
    ELSE IF cluster_complexity(cluster, scores) > 40 * Len(cluster)
    THEN "module_standard"
    ELSE "support_simple"

\* debt_count: the debt items whose file_path is in the cluster
debt_count(cluster, debt) ==
    Cardinality({i \in 1..Len(debt) : debt[i] \in Range(cluster)})

\* priority = avg_complexity + debt_count * 5, as the fraction
\* <<numerator, denominator>>
cluster_priority(cluster, scores, debt) ==
    IF cluster = <<>> THEN <<5 * debt_count(cluster, debt), 1>>
    ELSE <<cluster_complexity(cluster, scores)
               + 5 * debt_count(cluster, debt) * Len(cluster), Len(cluster)>>

\* cluster_priorities.sort(key=priority, reverse=True): stable, descending;
\* an entry is <<original_idx, cluster>>
RECURSIVE sort_cluster_priorities(_, _, _)
sort_cluster_priorities(entries, scores, debt) ==
    IF entries = <<>> THEN <<>>
    ELSE LET x == entries[Len(entries)]
             t == sort_cluster_priorities(
                      SubSeq(entries, 1, Len(entries) - 1), scores, debt)
             k == Cardinality({i \in 1..Len(t) :
                     ~FracGreater(cluster_priority(x[2], scores, debt),
                                  cluster_priority(t[i][2], scores, debt))})
         IN  SubSeq(t, 1, k) \o <<x>> \o SubSeq(t, k + 1, Len(t))

\* _generate_enhanced_refactor_plan: the directory number is the position
\* of the cluster after the sort
generate_enhanced_refactor_plan(cls, scores, debt) ==
    LET sorted == sort_cluster_priorities(
                      [idx \in 1..Len(cls) |-> <<idx - 1, cls[idx]>>],
                      scores, debt)
    IN  Flatten([idx \in 1..Len(sorted) |->
            [k \in 1..Len(sorted[idx][2]) |->
                [from |-> sorted[idx][2][k],
                 to |-> path_join(
                            <<directory_type(sorted[idx][2], scores), idx>>,
                            basename(sorted[idx][2][k])),
                 cluster_id |-> sorted[idx][1]]]])

\* `with open(summary_path, 'w')`: _module_info.md is base name 0
write_module_info(fs, target_dir) ==
    [p \in (DOMAIN fs) \cup {path_join(target_dir, 0)} |->
        IF p = path_join(target_dir, 0) THEN <<<<"module_info", 0>>, 0>>
        ELSE fs[p]]

\* _perform_enhanced_refactor from cluster idx on: the directory number is
\* the position of the cluster in the argument
RECURSIVE perform_enhanced_refactor_from(_, _, _, _)
perform_enhanced_refactor_from(cls, scores, fs, idx) ==
    IF idx > Len(cls) THEN fs
    ELSE IF cls[idx] = <<>>
    THEN perform_enhanced_refactor_from(cls, scores, fs, idx + 1)
    ELSE LET target_dir == <<directory_type(cls[idx], scores), idx>>
         IN  perform_enhanced_refactor_from(cls, scores,
                 move_cluster(write_module_info(fs, target_dir), cls[idx],
                              target_dir, 1),
                 idx + 1)

perform_enhanced_refactor(cls, scores, fs) ==
    perform_enhanced_refactor_from(cls, scores, fs, 1)

\* the path of file f: MaxBaseNames base names per directory
PathOf(f) ==
    <<<<"src", ((f - 1) \div MaxBaseNames) + 1>>, ((f - 1) % MaxBaseNames) + 1>>

\* the clusters the model draws from, as lists of paths
PathClusters(cls) ==
    [c \in 1..Len(cls) |-> [k \in 1..Len(cls[c]) |-> PathOf(cls[c][k])]]

RefactorScores == {10, 50, 80}

RInit ==
    /\ CIdle /\ nfiles = 0 /\ dep_graph = <<>> /\ complexity_scores = <<>>
    /\ OIdle
    /\ SIdle
    /\ DIdle
    /\ TIdle /\ AIdle /\ BIdle /\ MIdle /\ VIdle /\ EIdle
    /\ WIdle /\ KIdle
    /\ fpc = "call"
    /\ \E n \in 0..MaxRefactorFiles :
          /\ \E cls \in ClusterLists(n) : refactor_clusters = PathClusters(cls)
          /\ \E scores \in [1..n -> RefactorScores] :
                refactor_scores = [p \in {PathOf(f) : f \in 1..n} |->
                    scores[CHOOSE f \in 1..n : PathOf(f) = p]]
          /\ refactor_debt \in {<<>>} \cup {<<PathOf(f)>> : f \in 1..n}
          /\ filesystem = [p \in {PathOf(f) : f \in 1..n} |-> p]
    /\ refactor_plan = <<>>

\* llm_index/refactor.py: dry_run_refactor
DryRunRefactor ==
    /\ fpc = "call"
    /\ refactor_plan' = dry_run_refactor(refactor_clusters)
    /\ fpc' = "planned"
    /\ UNCHANGED <<refactor_clusters, refactor_scores, refactor_debt, filesystem>>
    /\ UNCHANGED <<cvars, ovars, svars, dvars, tvars, avars, bvars, small_indices, zvars, wvars, kvars>>

\* api/refactor.py: _generate_enhanced_refactor_plan
GenerateEnhancedRefactorPlan ==
    /\ fpc = "call"
    /\ refactor_plan' = generate_enhanced_refactor_plan(refactor_clusters,
                            refactor_scores, refactor_debt)
    /\ fpc' = "planned"
    /\ UNCHANGED <<refactor_clusters, refactor_scores, refactor_debt, filesystem>>
    /\ UNCHANGED <<cvars, ovars, svars, dvars, tvars, avars, bvars, small_indices, zvars, wvars, kvars>>

\* llm_index/refactor.py: perform_refactor
PerformRefactor ==
    /\ fpc = "call"
    /\ filesystem' = perform_refactor(refactor_clusters, filesystem)
    /\ fpc' = "moved"
    /\ UNCHANGED <<refactor_clusters, refactor_scores, refactor_debt, refactor_plan>>
    /\ UNCHANGED <<cvars, ovars, svars, dvars, tvars, avars, bvars, small_indices, zvars, wvars, kvars>>

\* api/refactor.py: _perform_enhanced_refactor
PerformEnhancedRefactor ==
    /\ fpc = "call"
    /\ filesystem' = perform_enhanced_refactor(refactor_clusters,
                         refactor_scores, filesystem)
    /\ fpc' = "moved"
    /\ UNCHANGED <<refactor_clusters, refactor_scores, refactor_debt, refactor_plan>>
    /\ UNCHANGED <<cvars, ovars, svars, dvars, tvars, avars, bvars, small_indices, zvars, wvars, kvars>>

RNext ==
    \/ DryRunRefactor
    \/ GenerateEnhancedRefactorPlan
    \/ PerformRefactor
    \/ PerformEnhancedRefactor

(* The specifications *)
\* cluster_files
Init == CInit
Next == CNext
Spec == Init /\ [][Next]_vars

\* optimize_for_llm
SpecOptimize == OInit /\ [][ONext]_vars

\* optimize_for_llm, with the ordering loop running on once it has started
SpecOrdering == OInit /\ [][ONext]_vars /\ WF_vars(OrderStep)

\* analyze_file_complexity and overall_score
SpecScore == SInit /\ [][SNext]_vars

\* two runs over the same project
SpecRuns == DInit /\ [][DNext]_vars

\* cluster_files under a malformed size configuration
SpecConfig == ConfigInit /\ [][ConfigNext]_vars

\* _optimize_clusters over any clusters and any weighted graph
SpecMerge == MergeInit /\ [][MergeNext]_vars

\* detect_debt_items over one file
SpecDetect == TInit /\ [][TNext]_vars

\* analyze_project and analyze_project_enhanced over one project
SpecAnalyze == AInit /\ [][ANext]_vars

\* analyze_project_debt over the files of a dep_graph
SpecDebt == BInit /\ [][BNext]_vars

\* generate_action_plan over a list of debt items
SpecPlan == PInit /\ [][PNext]_vars

SpecOverflow == VInit /\ [][VNext]_vars

\* the request handlers over the registry of temp sessions
SpecSessions == WInit /\ [][WNext]_vars

\* the line classifiers over the lines of one file
SpecCategorize == KInit /\ [][KNext]_vars

\* the refactor plans and moves over the clusters of one project
SpecRefactor == RInit /\ [][RNext]_vars

----------------------------------------------------------------------------
(* Claims about cluster_files *)

Done == pc = "done"
ResultFiles == Flatten(result)

\* C1: for a non-empty dependency graph and max_cluster_size >= 1 the
\* returned clusters partition the input files: every file is in exactly one
\* cluster, on every path (shortcut, labelling, merging, splitting, fallback).
C1_Partition ==
    (Done /\ nfiles >= 1) =>
        /\ Len(ResultFiles) = nfiles
        /\ Range(ResultFiles) = 1..nfiles

\* a run in which an oversized cluster of the labelling was split
C1_Witness ==
    /\ Done
    /\ ~raised
    /\ \E i \in 1..Len(initial_clusters) :
           Len(initial_clusters[i]) > max_cluster_size
    /\ Len(result) >= 3

\* C2: every returned cluster has at most max_cluster_size files.
C2_SizeBound ==
    Done => \A i \in 1..Len(result) : Len(result[i]) <= max_cluster_size

\* a run in which an oversized cluster was split by the labelling of its
\* subgraph (not by fixed-size chunking) and a full cluster was returned
C2_Witness ==
    /\ Done
    /\ \E i \in 1..Len(initial_clusters) :
           /\ Len(initial_clusters[i]) > max_cluster_size
           /\ Len(initial_clusters[i]) >= 4
           /\ n_clusters(Len(initial_clusters[i]), max_cluster_size)
                  >= CeilDiv(Len(initial_clusters[i]), max_cluster_size)
    /\ \E i \in 1..Len(result) : Len(result[i]) = max_cluster_size

NoMergeTarget(i) ==
    \A j \in (1..Len(optimized)) \ {i} :
        \/ Len(optimized[j]) + Len(optimized[i]) > max_cluster_size
        \/ inter_cluster_connectivity(optimized[i], optimized[j], G)[1] = 0

C4_Fallback ==
    (Done /\ raised) =>
        /\ ResultFiles = Files(nfiles)
        /\ \A i \in 1..Len(result) :
               /\ 1 <= Len(result[i])
               /\ Len(result[i]) <= max_cluster_size
               /\ i < Len(result) => Len(result[i]) = max_cluster_size

\* a run that raised and returned several chunks, the last one not full
C4_Witness ==
    /\ Done
    /\ raised
    /\ Len(result) >= 3
    /\ Len(result[Len(result)]) < max_cluster_size

\* C10: a non-empty graph of at most max_cluster_size files gives exactly
\* one cluster, holding all the files, whatever the dependency tokens.
C10_SingleCluster ==
    (Done /\ nfiles >= 1 /\ nfiles <= max_cluster_size) =>
        result = <<Files(nfiles)>>

\* the chain 1 -> 2 -> 3 of three files under a larger max_cluster_size
C10_Witness ==
    /\ Done
    /\ nfiles = 3
    /\ max_cluster_size > 3
    /\ dep_graph[1] = {TokFile2Upper}
    /\ dep_graph[2] = {TokDir, TokExternal}
    /\ result = <<<<1, 2, 3>>>>

----------------------------------------------------------------------------
(* Claims about optimize_for_llm *)

\* sum of the total_tokens of the member files of a chunk
MemberTokens(chunk) ==
    SumSeq([i \in 1..Len(chunk.files) |->
               file_tokens[chunk.files[i]].total_tokens])

\* C6: every chunk _create_context_chunks produces, whole cluster or fragment
\* of a split cluster, has token_estimate.total_tokens equal to the sum of
\* the total_tokens of its member files' estimates, failed estimations (the
\* default estimate) included.
C6_TokenConservation ==
    \A i \in 1..Len(context_chunks) :
        context_chunks[i].token_estimate.total_tokens
            = MemberTokens(context_chunks[i])

\* a split cluster with a fragment that holds a file whose estimation failed
\* next to a file that was estimated, and a chunk that is a whole cluster
C6_Witness ==
    /\ opc = "order"
    /\ \E i \in 1..Len(context_chunks) :
          /\ Len(context_chunks[i].chunk_id) = 2
          /\ \E f, g \in Range(context_chunks[i].files) :
                /\ file_tokens[f] = DefaultEstimate
                /\ file_tokens[g] # DefaultEstimate
    /\ \E i \in 1..Len(context_chunks) : Len(context_chunks[i].chunk_id) = 1

\* the ids of the chunks placed before position p
PlacedBefore(p) == {ordered_chunks[q].chunk_id : q \in 1..(p - 1)}

\* the chunks not placed before position p whose dependencies all are
ReadyAt(p) ==
    {id \in Range(ChunkIds(context_chunks)) \ PlacedBefore(p) :
        chunk_deps(context_chunks)[id] \subseteq PlacedBefore(p)}

RECURSIVE Peel(_, _)
Peel(nodes, cdeps) ==
    IF nodes = {} THEN TRUE
    ELSE LET free == {c \in nodes : cdeps[c] \cap nodes = {}}
         IN  free # {} /\ Peel(nodes \ free, cdeps)

\* the chunk-dependency graph has no cycle
Acyclic == Peel(Range(ChunkIds(context_chunks)), chunk_deps(context_chunks))

\* C7: the order _optimize_chunk_ordering builds is topological: a chunk is
\* placed before one of its dependencies only at a step where no remaining
\* chunk had all its dependencies placed, and with an acyclic
\* chunk-dependency graph every chunk comes after all chunks it depends on.
C7_TopologicalOrder ==
    opc \in {"ordering", "done"} =>
        /\ \A p \in 1..Len(ordered_chunks) :
              \/ chunk_deps(context_chunks)[ordered_chunks[p].chunk_id]
                     \subseteq PlacedBefore(p)
              \/ ReadyAt(p) = {}
        /\ Acyclic =>
              \A p \in 1..Len(ordered_chunks) :
                  chunk_deps(context_chunks)[ordered_chunks[p].chunk_id]
                      \subseteq PlacedBefore(p)

\* an acyclic graph of three or more chunks in which the first chunk of the
\* input depends on another one, so that the input order is not kept
C7_Witness ==
    /\ opc = "done"
    /\ Len(context_chunks) >= 3
    /\ Acyclic
    /\ chunk_deps(context_chunks)[context_chunks[1].chunk_id] # {}
    /\ ChunkIds(ordered_chunks) # ChunkIds(context_chunks)

\* C8: every loading phase has total_tokens at most max_tokens // 3 of the
\* profile, also when a chunk's own total is above that cap.
C8_PhaseCap ==
    opc = "done" =>
        \A k \in 1..Len(loading_phases) :
            loading_phases[k].total_tokens
                <= Profile(llm_model).max_tokens \div 3

----------------------------------------------------------------------------
(* Claims about overall_score *)

\* C9: overall_score is in [0, 100] (here in units of 1/8000) for the metrics
\* of each of the three analysis strategies and of the failure default,
\* the metrics of an empty file included.
C9_ScoreBound ==
    spc = "scored" => (0 <= file_score /\ file_score <= 100 * 8000)

\* an empty file has been scored
C9_Witness ==
    /\ spc = "scored"
    /\ metrics.lines_of_code = 0
    /\ metrics.nesting_depth = 0
    /\ metrics # FailureMetrics

----------------------------------------------------------------------------
(* Claims about two runs *)

\* C5: two runs over the same files and configuration produce the same
\* dependency lists and the same chunk dependency lists: no output depends
\* on the iteration order of a set.
C5_Deterministic ==
    (\A r \in Runs : dpc[r] = "chunked") =>
        /\ run_dep_graph[1] = run_dep_graph[2]
        /\ run_dependencies[1] = run_dependencies[2]

----------------------------------------------------------------------------
(* Further claims about cluster_files *)

\* all dependency sets are empty
AllIndependent == \A f \in 1..nfiles : dep_graph[f] = {}

\* C11: for n mutually independent files with max_cluster_size < n <=
\* 2 * max_cluster_size and min_cluster_size <= n // 2, cluster_files returns
\* exactly two clusters, their sizes summing to n, each at most
\* max_cluster_size and at least min_cluster_size.
C11_TwoClusters ==
    (/\ Done
     /\ AllIndependent
     /\ max_cluster_size < nfiles
     /\ nfiles <= 2 * max_cluster_size
     /\ min_cluster_size <= nfiles \div 2) =>
        /\ Len(result) = 2
        /\ Len(result[1]) + Len(result[2]) = nfiles
        /\ \A i \in 1..2 : /\ Len(result[i]) <= max_cluster_size
                           /\ Len(result[i]) >= min_cluster_size

\* seven independent files, max 4, min 3: the labelling path returns 4 + 3
C11_Witness ==
    /\ Done
    /\ AllIndependent
    /\ nfiles = 7
    /\ max_cluster_size = 4
    /\ min_cluster_size = 3
    /\ ~raised
    /\ Len(result) = 2

\* the files a file is linked to by a resolved dependency, in either
\* direction
Linked(f) ==
    {g \in 1..nfiles : \/ <<f, g>> \in ResolvedPairs(dep_graph, nfiles)
                       \/ <<g, f>> \in ResolvedPairs(dep_graph, nfiles)}

RECURSIVE Closure(_)
Closure(s) ==
    LET more == s \cup UNION {Linked(f) : f \in s}
    IN  IF more = s THEN s ELSE Closure(more)

\* the dependency component of file f
Component(f) == Closure({f})

\* C12: a dependency component no larger than max_cluster_size is never
\* split across clusters (scenario D: the component of 5 files stays in one
\* cluster under max_cluster_size = 12).
C12_ComponentKept ==
    (Done /\ nfiles >= 1) =>
        \A f \in 1..nfiles :
            Cardinality(Component(f)) <= max_cluster_size =>
                \E i \in 1..Len(result) : Component(f) \subseteq Range(result[i])

----------------------------------------------------------------------------
(* Claims about detect_debt_items *)

Detected == /\ tpc = "detected" /\ cur_file.readable
            /\ cur_file.ext = ".py" /\ cur_file.parses

\* the items of category complexity and severity high at a line
LongItemsAt(line) ==
    {i \in DOMAIN file_debt : /\ file_debt[i].category = "complexity"
                              /\ file_debt[i].severity = "high"
                              /\ file_debt[i].line_number = line}

\* C13: for every function definition of a parseable Python file,
\* detect_debt_items emits exactly one item of category complexity and
\* severity high at the function's starting line when the function spans
\* more than 50 lines, and no such item when it spans 50 lines or fewer.
C13_LongFunction ==
    Detected =>
        \A k \in DOMAIN cur_file.nodes :
            LET node == cur_file.nodes[k] IN
            node.kind \in {"FunctionDef", "AsyncFunctionDef"} =>
                Cardinality(LongItemsAt(node.lineno)) =
                    (IF func_lines(node) > 50 THEN 1 ELSE 0)

----------------------------------------------------------------------------
(* Claims about analyze_project *)

CountedFiles == {i \in DOMAIN project : counted(project[i])}

\* C14: analyze_project raises the file-limit error exactly when the number
\* of counted files exceeds MAX_FILES_PER_PROJECT: a run that returns had at
\* most MAX_FILES_PER_PROJECT counted files and its graph holds every
\* counted file that could be read (none is cut off), and a run over more
\* counted files ends in the error, also when analyze_project_enhanced runs.
C14_FileLimit ==
    /\ apc = "raised" => Cardinality(CountedFiles) > MAX_FILES_PER_PROJECT
    /\ apc = "returned" =>
          /\ Cardinality(CountedFiles) <= MAX_FILES_PER_PROJECT
          /\ Range(walk_dep_graph) = {i \in CountedFiles : project[i].readable}

C14_Witness ==
    /\ apc = "raised"
    /\ entry = "analyze_project_enhanced"
    /\ stage = "except"
    /\ Cardinality(CountedFiles) = MAX_FILES_PER_PROJECT + 1

----------------------------------------------------------------------------
(* Claims about analyze_project_debt *)

ItemsOf(path) ==
    LET mine(item) == item.file_path = path IN SelectSeq(debt_items, mine)

\* C15: in analyze_project_debt a failure on one file never aborts the
\* batch and never removes the file from the result: when the report is
\* returned, file_complexities has an entry for every file of dep_graph,
\* and the entry and the debt items of every file are those of the file's
\* own analysis, whatever happened to the other files.
C15_EveryFileKept ==
    bpc = "done" =>
        \A i \in DOMAIN batch :
            /\ batch[i].path \in DOMAIN file_complexities
            /\ file_complexities[batch[i].path] = analyze_file_complexity(batch[i])
            /\ ItemsOf(batch[i].path) = detect_debt_items(batch[i])

----------------------------------------------------------------------------
(* Claims about generate_action_plan *)

\* the positions of the items of minutes whose severity is at least medium
Eligible ==
    {i \in DOMAIN debt_items :
        /\ debt_items[i].estimated_effort = "minutes"
        /\ debt_items[i].severity \in {"medium", "high", "critical"}}

\* C20: quick_wins is exactly the first (up to 5) items of debt_items, in
\* detection order, that have effort minutes and a severity of at least
\* medium: medium, high or critical.
C20_QuickWins ==
    bpc = "planned" =>
        /\ Len(action_plan.quick_wins) = Min2(5, Cardinality(Eligible))
        /\ \A k \in DOMAIN action_plan.quick_wins :
              \E i \in Eligible :
                  /\ Cardinality({j \in Eligible : j <= i}) = k
                  /\ action_plan.quick_wins[k] = debt_items[i]

----------------------------------------------------------------------------
(* Claims about the size configuration *)

\* C16: a malformed size configuration (min_cluster_size > max_cluster_size,
\* or max_cluster_size <= 0) is rejected before any clustering work starts:
\* under such a configuration cluster_files never reaches the spectral
\* clustering or the optimization and never returns clusters.
C16_ConfigRejected ==
    malformed(max_cluster_size, min_cluster_size) =>
        /\ pc \notin {"spectral", "optimize"}
        /\ ~(pc = "done" /\ result # <<>>)

----------------------------------------------------------------------------
(* Claims about the merges of _optimize_clusters *)

\* the default threshold 0.05, in hundredths
MergeThreshold == <<5, 1>>

\* the cluster _handle_small_cluster is about to merge the next cluster into
\* (0: none)
HandleTarget ==
    IF /\ pc = "optimize" /\ oi <= Len(initial_clusters)
       /\ Len(initial_clusters[oi]) <= max_cluster_size
       /\ Len(initial_clusters[oi]) < min_cluster_size
       /\ optimized # <<>>
    THEN HandleScan(initial_clusters[oi], optimized, G, max_cluster_size,
                    1, 0, <<0, 1>>)
    ELSE 0

\* the cluster _merge_small_clusters is about to merge the next small
\* cluster into (0: none)
MergeTarget ==
    IF pc = "merge" /\ small_indices # <<>>
    THEN find_best_merge_target(optimized[small_indices[Len(small_indices)]],
                                optimized, small_indices[Len(small_indices)],
                                G, max_cluster_size, min_cluster_size)
    ELSE 0

OverflowTotal == chunks_total_tokens(overflow_chunks)

\* the tokens of the first k selected chunks
SelectedTokens(k) ==
    SumSeq([i \in 1..k |->
        ChunkById(overflow_chunks, overflow_strategy.selected_chunks[i])
            .token_estimate.total_tokens])

SelectedPriority(k) ==
    ChunkById(overflow_chunks, overflow_strategy.selected_chunks[k]).priority_score

\* C18: when the chunks' total tokens exceed max_tokens, the selected chunks
\* are taken in descending priority_score order (no chunk twice, no chunk
\* left out has a higher score than one taken), their cumulative tokens
\* never exceed max_tokens, tokens_saved is the total minus the selected
\* tokens, and the strategy is prioritize_core up to ratio 1.5,
\* summarize_supporting up to 2.0, progressive_detail up to 3.0,
\* chunk_selection above; when the total fits, the strategy is load_all
\* with overflow_risk none.
C18_OverflowStrategy ==
    vpc = "returned" =>
        IF OverflowTotal > overflow_max_tokens
        THEN LET sel == overflow_strategy.selected_chunks
                 strategy == overflow_strategy.recommended_strategy
             IN  /\ \A i, j \in 1..Len(sel) :
                       i < j => /\ sel[i] # sel[j]
                                /\ ~FracGreater(SelectedPriority(j),
                                                SelectedPriority(i))
                 /\ \A c \in 1..Len(overflow_chunks) :
                       overflow_chunks[c].chunk_id \notin Range(sel) =>
                           \A k \in 1..Len(sel) :
                               ~FracGreater(overflow_chunks[c].priority_score,
                                            SelectedPriority(k))
                 /\ \A k \in 0..Len(sel) :
                       SelectedTokens(k) <= overflow_max_tokens
                 /\ overflow_strategy.tokens_saved
                        = OverflowTotal - SelectedTokens(Len(sel))
                 /\ 2 * OverflowTotal <= 3 * overflow_max_tokens
                        => strategy = "prioritize_core"
                 /\ (/\ 2 * OverflowTotal > 3 * overflow_max_tokens
                     /\ OverflowTotal <= 2 * overflow_max_tokens)
                        => strategy = "summarize_supporting"
                 /\ (/\ OverflowTotal > 2 * overflow_max_tokens
                     /\ OverflowTotal <= 3 * overflow_max_tokens)
                        => strategy = "progressive_detail"
                 /\ OverflowTotal > 3 * overflow_max_tokens
                        => strategy = "chunk_selection"
        ELSE /\ overflow_strategy.strategy = "load_all"
             /\ overflow_strategy.overflow_risk = "none"

\* an overflow of ratio 3 where the loop took one chunk of two tokens and
\* broke at the next
C18_Witness ==
    /\ vpc = "returned"
    /\ OverflowTotal = 3 * overflow_max_tokens
    /\ overflow_strategy.recommended_strategy = "progressive_detail"
    /\ Len(overflow_strategy.selected_chunks) = 1
    /\ Len(overflow_chunks) = 3
    /\ overflow_strategy.tokens_saved = OverflowTotal - 2

\* C19: for every analysed file, the value analyze_project_enhanced stores in
\* complexity_scores[path] equals overall_score() of the file's metrics.
C19_StoredScore == spc = "stored" => stored_score = file_score

\* C21: whenever a dependency token of file A resolves (_find_target_files)
\* to a different file B, the graph _build_enhanced_graph returns holds the
\* edge A-B with a positive weight, whether or not A and B share tokens.
C21_ResolvedEdge ==
    pc = "spectral" =>
        \A p \in ResolvedPairs(dep_graph, nfiles) :
            /\ has_edge(G, p[1], p[2])
            /\ G[{p[1], p[2]}] > 0

\* the requests between unique_tempdir and their own cleanup
OwnsSession(r) == requests[r].rpc = "body"

\* C22: under any interleaving of requests calling unique_tempdir and
\* cleanup_tempdir, the temp directory of a session its owning request has
\* not yet cleaned up is never deleted or unregistered by another request.
C22_NoInterference ==
    \A r \in DOMAIN requests :
        OwnsSession(r) =>
            /\ requests[r].sid \in DOMAIN TEMP_SESSIONS
            /\ requests[r].tempdir \in tempdirs

\* the sessions a step takes out of the registry
Unregistered == (DOMAIN TEMP_SESSIONS) \ (DOMAIN TEMP_SESSIONS')

\* C28: after any sequence of unique_tempdir and cleanup_tempdir calls the
\* registry holds at most MAX_TEMP_SESSIONS sessions, and the sessions a
\* call of unique_tempdir expires are the oldest ones.
C28_SessionLimit ==
    [][/\ Cardinality(DOMAIN TEMP_SESSIONS') <= MAX_TEMP_SESSIONS
       /\ made' = made + 1 =>
              \A x \in Unregistered : \A y \in (DOMAIN TEMP_SESSIONS) \ Unregistered :
                  TEMP_SESSIONS[x] < TEMP_SESSIONS[y]]_vars

HasReturned(r) == requests[r].rpc \in {"returned", "cleaned_again"}

\* C29: every session a handler registered is unregistered by the time the
\* handler returns, on every path out of its try block; when no request is
\* in flight the registry is empty; and a repeated cleanup_tempdir with the
\* same session id changes nothing.
C29_SessionsCleaned ==
    [][/\ \A r \in DOMAIN requests :
             HasReturned(r)' => requests'[r].sid \notin DOMAIN TEMP_SESSIONS'
       /\ (\A r \in DOMAIN requests : HasReturned(r)') => TEMP_SESSIONS' = <<>>
       /\ \A r \in DOMAIN requests :
             (requests[r].rpc = "returned" /\ requests'[r].rpc = "cleaned_again")
                 => /\ TEMP_SESSIONS' = TEMP_SESSIONS
                    /\ tempdirs' = tempdirs]_vars

\* one request has returned through its except block, one has had its
\* session cleaned up a second time, one still owns a registered session
C29_Witness ==
    \E r1, r2, r3 \in DOMAIN requests :
        /\ requests[r1].rpc = "returned" /\ requests[r1].path = "except"
        /\ requests[r1].sid # 0 /\ requests[r1].sid \notin DOMAIN TEMP_SESSIONS
        /\ requests[r2].rpc = "cleaned_again"
        /\ OwnsSession(r3) /\ requests[r3].sid \in DOMAIN TEMP_SESSIONS

----------------------------------------------------------------------------
(* Claims about the chunks, their order and the loading phases *)

\* the chunks that _split_cluster_into_chunks made ("cluster_i_part_k")
SplitChunks == {i \in 1..Len(context_chunks) : Len(context_chunks[i].chunk_id) = 2}

\* C24: every chunk that _split_cluster_into_chunks returns has a token total
\* of at most the profile's optimal_chunk_size, also when a single file is
\* above that size.
C24_ChunkTarget ==
    \A i \in SplitChunks :
        context_chunks[i].token_estimate.total_tokens
            <= Profile(llm_model).optimal_chunk_size

\* C25: the loop of _optimize_chunk_ordering ends for every input, cyclic
\* chunk dependencies included: each iteration moves exactly one chunk from
\* remaining_chunks to ordered_chunks, and once the loop has started it
\* reaches the end with ordered_chunks holding each chunk of the input once.
C25_OrderingTerminates ==
    /\ [][OrderStep =>
            /\ Len(ordered_chunks') = Len(ordered_chunks) + 1
            /\ Len(remaining_chunks') = Len(remaining_chunks) - 1]_vars
    /\ [](opc = "ordering" =>
            <>(/\ remaining_chunks = <<>>
               /\ Len(ordered_chunks) = Len(context_chunks)
               /\ Range(ordered_chunks) = Range(context_chunks)))

\* the loop has ended on three or more chunks whose dependencies form a cycle
C25_Witness ==
    /\ opc = "done"
    /\ ~Acyclic
    /\ Len(ordered_chunks) >= 3
    /\ Len(ordered_chunks) = Len(context_chunks)

\* the places where file f occurs in the chunks
Occurrences(f) ==
    {p \in (1..Len(context_chunks)) \X (1..MaxChunkFiles + 1) :
        /\ p[2] <= Len(context_chunks[p[1]].files)
        /\ context_chunks[p[1]].files[p[2]] = f}

\* C26: the chunks of _create_context_chunks partition the clustered files:
\* every file of a cluster is in exactly one chunk, no chunk is empty and
\* the files of a chunk all come from the cluster the chunk is named after.
C26_ChunksPartition ==
    opc \in {"order", "ordering", "done", "error"} =>
        /\ \A f \in UNION {Range(clusters[c]) : c \in 1..Len(clusters)} :
              Cardinality(Occurrences(f)) = 1
        /\ \A i \in 1..Len(context_chunks) :
              /\ context_chunks[i].files # <<>>
              /\ Range(context_chunks[i].files)
                     \subseteq Range(clusters[context_chunks[i].chunk_id[1] + 1])

\* one cluster became one chunk and another one was split into several
C26_Witness ==
    /\ opc = "order"
    /\ Len(clusters) >= 2
    /\ \E i \in 1..Len(context_chunks) :
          /\ Len(context_chunks[i].chunk_id) = 1
          /\ Len(context_chunks[i].files) >= 2
    /\ \E i, j \in SplitChunks :
          /\ i # j
          /\ context_chunks[i].chunk_id[1] = context_chunks[j].chunk_id[1]

\* the chunk ids of all phases, in the order of the phases
PhaseChunks ==
    Flatten([k \in 1..Len(loading_phases) |-> loading_phases[k].chunks])

\* C27: the loading phases hold the chunks in the order they were given, no
\* phase is empty, phase k has the number k, its total_tokens is the sum of
\* the token totals of its chunks and its attention_weight is
\* attention_decay ** (k - 1).
C27_LoadingPhases ==
    opc = "done" =>
        /\ PhaseChunks = ChunkIds(ordered_chunks)
        /\ \A k \in 1..Len(loading_phases) :
              LET phase == loading_phases[k]
              IN  /\ phase.chunks # <<>>
                  /\ phase.phase = k
                  /\ phase.total_tokens =
                         SumSeq([j \in 1..Len(phase.chunks) |->
                             ChunkById(ordered_chunks, phase.chunks[j])
                                 .token_estimate.total_tokens])
                  /\ phase.attention_weight =
                         <<Pow(Profile(llm_model).attention_decay, k - 1),
                           Pow(100, k - 1)>>

\* two or more phases, one of them with several chunks
C27_Witness ==
    /\ opc = "done"
    /\ Len(loading_phases) >= 2
    /\ \E k \in 1..Len(loading_phases) : Len(loading_phases[k].chunks) >= 2

----------------------------------------------------------------------------
(* Claims about the line classifiers *)

\* the region that is open after the tokens of a line, given the region open
\* before it: "none", the quote of a docstring, "block" or "jsdoc"
RECURSIVE RegionAfterLine(_, _)
RegionAfterLine(line, region) ==
    IF line = <<>> THEN region
    ELSE IF region = "none"
    THEN IF Head(line) \in {"Q3", "A3"}
         THEN RegionAfterLine(Tail(line), Head(line))
         ELSE IF Head(line) = "OPEN" THEN RegionAfterLine(Tail(line), "block")
         ELSE IF Head(line) = "JSDOC" THEN RegionAfterLine(Tail(line), "jsdoc")
         ELSE IF Head(line) \in {"HASH", "SLASHES"} THEN "none"
         ELSE RegionAfterLine(Tail(line), "none")
    ELSE IF \/ Head(line) = region
            \/ Head(line) = "CLOSE" /\ region \in {"block", "jsdoc"}
    THEN RegionAfterLine(Tail(line), "none")
    ELSE RegionAfterLine(Tail(line), region)

\* the region that is open after the first n lines
RECURSIVE OpenRegion(_)
OpenRegion(n) ==
    IF n = 0 THEN "none"
    ELSE RegionAfterLine(source_lines[n], OpenRegion(n - 1))

\* C23: after each line the classifiers' flags are set exactly when a
\* docstring or block-comment region opened on or before that line is still
\* open (a region opened and closed on one line leaves none open), and a
\* line of plain code outside every region goes to code_lines.
C23_ClassifierState ==
    [][li' = li + 1 =>
          /\ lang = "python" => (in_docstring' <=> OpenRegion(li') # "none")
          /\ lang = "js" =>
                /\ in_jsdoc' <=> OpenRegion(li') = "jsdoc"
                /\ in_block_comment' <=> OpenRegion(li') = "block"
          /\ (OpenRegion(li) = "none" /\ source_lines[li'] = <<"TEXT">>) =>
                code_lines' = Append(code_lines, source_lines[li'])]_vars

----------------------------------------------------------------------------
(* Claims about the refactor *)

\* the source files of the clusters
RefactorFiles ==
    UNION {Range(refactor_clusters[c]) : c \in 1..Len(refactor_clusters)}

\* C30: no two source files get the same destination: the 'to' paths of a
\* refactor plan are pairwise distinct, and after the moves every source
\* file is at its own destination, in a target directory under its own base
\* name; also for a cluster with two files of the same base name.
C30_DistinctDestinations ==
    /\ fpc = "planned" =>
          \A i, j \in 1..Len(refactor_plan) :
              i # j => refactor_plan[i].to # refactor_plan[j].to
    /\ fpc = "moved" =>
          \A file \in RefactorFiles :
              \E p \in DOMAIN filesystem :
                  /\ p \notin RefactorFiles
                  /\ basename(p) = basename(file)
                  /\ filesystem[p] = file

====
